---- MODULE Spec2Model ----
(***************************************************************************)
(* Software rasterizer of the Space-Travel renderer: the line rasterizer   *)
(* (line.rs), the render pipeline (main.rs), the vertex stage (shaders.rs) *)
(* and the fragment-shading dispatch (fragment.rs).                        *)
(*                                                                         *)
(* An f32 is modelled as an exact rational or one of NaN, +inf, -inf, so   *)
(* that the float-to-integer casts and the divisions of the source keep    *)
(* their meaning.                                                          *)
(***************************************************************************)
EXTENDS Integers, Sequences, FiniteSets, TLC

VARIABLES
    pc,             \* "ready" / "done" around a call of line, "frame" inside
                    \* the frame loop
    ncalls,         \* draw calls issued since the last clear
    a, b,           \* the two Vertex arguments of line / draw_line
    fragments,      \* the Vec<Fragment> returned by line, with its exit status
    buffer,         \* Framebuffer.buffer, row-major packed colours
    zbuffer,        \* Framebuffer.zbuffer, row-major depths
    current_color,  \* Framebuffer.current_color
    call            \* record of the last draw call: its inputs and its trace

vars == <<pc, ncalls, a, b, fragments, buffer, zbuffer, current_color, call>>

----------------------------------------------------------------------------
(* Bounds of the model *)

MaxCoord == 4      \* line endpoints range over -1 .. MaxCoord pixels
LineFuel == 12     \* loop iterations granted to a traversal before it is
                   \* reported as not terminated
FbWidth  == 4      \* framebuffer.width  (800 in main, scaled down)
FbHeight == 3      \* framebuffer.height (600 in main, scaled down)
MaxCalls == 2      \* draw calls issued between two clears

----------------------------------------------------------------------------
(* f32 arithmetic *)

Abs(n) == IF n < 0 THEN -n ELSE n

RECURSIVE GCD(_, _)
GCD(m, n) == IF n = 0 THEN m ELSE GCD(n, m % n)

\* the rational n/d in lowest terms with a positive denominator
Num(n, d) ==
    IF d = 1 THEN [k |-> "num", n |-> n, d |-> 1]
    ELSE LET s == IF d < 0 THEN -1 ELSE 1
             g == GCD(Abs(n), Abs(d))
         IN  [k |-> "num", n |-> (s * n) \div g, d |-> (s * d) \div g]

F(n)  == [k |-> "num", n |-> n, d |-> 1]
NaN   == [k |-> "nan", n |-> 0, d |-> 1]
PInf  == [k |-> "inf", n |-> 1, d |-> 1]
NInf  == [k |-> "inf", n |-> -1, d |-> 1]

IsNum(f) == f.k = "num"
IsNaN(f) == f.k = "nan"
IsInf(f) == f.k = "inf"
Sign(n)  == IF n > 0 THEN 1 ELSE IF n < 0 THEN -1 ELSE 0
InfOf(s) == IF s >= 0 THEN PInf ELSE NInf

FNeg(f) == IF IsNaN(f) THEN NaN ELSE [f EXCEPT !.n = -f.n]

FAdd(f, g) ==
    IF IsNaN(f) \/ IsNaN(g) THEN NaN
    ELSE IF IsInf(f) /\ IsInf(g) THEN (IF f.n = g.n THEN f ELSE NaN)
    ELSE IF IsInf(f) THEN f
    ELSE IF IsInf(g) THEN g
    ELSE IF f.d = g.d THEN Num(f.n + g.n, f.d)
    ELSE Num(f.n * g.d + g.n * f.d, f.d * g.d)

FSub(f, g) == FAdd(f, FNeg(g))

FMul(f, g) ==
    IF IsNaN(f) \/ IsNaN(g) THEN NaN
    ELSE IF IsInf(f) \/ IsInf(g)
         THEN (IF f.n = 0 \/ g.n = 0 THEN NaN ELSE InfOf(Sign(f.n) * Sign(g.n)))
    ELSE Num(f.n * g.n, f.d * g.d)

\* IEEE division: 0/0 and inf/inf are NaN, x/0 is an infinity
FDiv(f, g) ==
    IF IsNaN(f) \/ IsNaN(g) THEN NaN
    ELSE IF IsInf(f) THEN (IF IsInf(g) THEN NaN
                           ELSE InfOf(f.n * (IF g.n < 0 THEN -1 ELSE 1)))
    ELSE IF IsInf(g) THEN F(0)
    ELSE IF g.n = 0 THEN (IF f.n = 0 THEN NaN ELSE InfOf(f.n))
    ELSE Num(f.n * g.d, f.d * g.n)

\* IEEE comparisons: every comparison with NaN is false
FLt(f, g) ==
    /\ ~IsNaN(f) /\ ~IsNaN(g)
    /\ IF IsInf(f) THEN f.n < 0 /\ ~(IsInf(g) /\ g.n < 0)
       ELSE IF IsInf(g) THEN g.n > 0
       ELSE f.n * g.d < g.n * f.d
FGt(f, g) == FLt(g, f)
FLe(f, g) == ~IsNaN(f) /\ ~IsNaN(g) /\ ~FLt(g, f)
FEq(f, g) == ~IsNaN(f) /\ ~IsNaN(g) /\ f = g

I32Max == 2147483647
I32Min == -I32Max - 1

\* truncation toward zero of a rational
Trunc(f) == IF f.n >= 0 THEN f.n \div f.d ELSE -((-f.n) \div f.d)

\* `f as i32` / `f as isize`: truncates toward zero, saturates, NaN gives 0
as_i32(f) ==
    IF IsNaN(f) THEN 0
    ELSE IF IsInf(f) THEN (IF f.n > 0 THEN I32Max ELSE I32Min)
    ELSE Trunc(f)

as_isize(f) == as_i32(f)

\* `f as usize`: as above, and every negative value saturates to 0
as_usize(f) ==
    IF IsNaN(f) THEN 0
    ELSE IF IsInf(f) THEN (IF f.n > 0 THEN I32Max ELSE 0)
    ELSE IF f.n < 0 THEN 0 ELSE Trunc(f)

\* `n as f32`
as_f32(n) == F(n)

Half == Num(1, 2)

Vec2(x, y)    == [x |-> x, y |-> y]
Vec3(x, y, z) == [x |-> x, y |-> y, z |-> z]

----------------------------------------------------------------------------
(* Vertex and Fragment *)

Vertex(position, normal, transformed_position, transformed_normal) ==
    [position |-> position,
     normal |-> normal,
     tex_coords |-> Vec2(F(0), F(0)),
     color |-> [r |-> 255, g |-> 255, b |-> 255],
     transformed_position |-> transformed_position,
     transformed_normal |-> transformed_normal]

ZAxis == Vec3(F(0), F(0), F(1))
Zeros == Vec3(F(0), F(0), F(0))

\* a vertex that went through the vertex stage: its screen-space position
\* is tp
ScreenVertex(position, tp) == Vertex(position, ZAxis, tp, ZAxis)

Fragment(position, depth, intensity, vertex_position) ==
    [position |-> position, depth |-> depth,
     intensity |-> intensity, vertex_position |-> vertex_position]

----------------------------------------------------------------------------
(* line.rs: line *)

\* the fragment pushed for the pixel (x0, y0): lines 31-38
line_fragment_swapped(s, x0, y0) ==
    Fragment(Vec2(as_f32(y0), as_f32(x0)), s.start.z, F(1), s.start)

line_fragment(s, x0, y0) ==
    LET z == FAdd(s.start.z,
                  FDiv(FMul(FSub(s.end.z, s.start.z),
                            as_f32(x0 - as_i32(s.start.x))),
                       FSub(s.end.x, s.start.x)))
    IN  Fragment(Vec2(as_f32(x0), as_f32(y0)), z, F(1), s.start)

\* the exit test of the loop: line 40
line_break_either(s, x0, y0) == x0 = s.x1 \/ y0 = s.y1

line_break(s, x0, y0) == x0 = s.x1 /\ y0 = s.y1

\* the loop of line, from the state (x0, y0, err) with the fragments pushed
\* so far; s holds the values computed before the loop
RECURSIVE line_loop(_, _, _, _, _, _)
line_loop(s, x0, y0, err, acc, fuel) ==
    LET pushed == Append(acc, line_fragment(s, x0, y0))
        e2  == err
        stx == e2 > -s.dx
        sty == e2 < s.dy
        err1 == IF stx THEN err - s.dy ELSE err
        err2 == IF sty THEN err1 + s.dx ELSE err1
    IN  IF line_break(s, x0, y0)
        THEN [terminated |-> TRUE, frags |-> pushed]
        ELSE IF fuel = 0
        THEN [terminated |-> FALSE, frags |-> pushed]
        ELSE line_loop(s, IF stx THEN x0 + s.sx ELSE x0,
                          IF sty THEN y0 + s.sy ELSE y0,
                          err2, pushed, fuel - 1)

line(va, vb) ==
    LET start == va.transformed_position
        end   == vb.transformed_position
        x0 == as_i32(start.x)
        y0 == as_i32(start.y)
        x1 == as_i32(end.x)
        y1 == as_i32(end.y)
        dx == Abs(x1 - x0)
        dy == Abs(y1 - y0)
        s  == [start |-> start, end |-> end, x1 |-> x1, y1 |-> y1,
               dx |-> dx, dy |-> dy,
               sx |-> IF x0 < x1 THEN 1 ELSE -1,
               sy |-> IF y0 < y1 THEN 1 ELSE -1]
        \* -dy / 2 rounds toward zero
        err == IF dx > dy THEN dx \div 2 ELSE -(dy \div 2)
    IN  line_loop(s, x0, y0, err, <<>>, LineFuel)

----------------------------------------------------------------------------
(* Color and Framebuffer *)

Color(red, green, blue) == [r |-> red, g |-> green, b |-> blue]

\* Color::to_hex: the three channels packed into one integer
to_hex(c) == c.r * 65536 + c.g * 256 + c.b

\* the colour clear() resets the colour buffer to
background_color == 0

\* the "far" sentinel clear() resets the depth buffer to
FarDepth == PInf

Pixels == 1 .. FbWidth * FbHeight

\* row-major index of the pixel (x, y)
PixelIndex(x, y) == y * FbWidth + x + 1

\* Framebuffer::clear
clear(fb) ==
    [fb EXCEPT !.buffer  = [i \in Pixels |-> background_color],
               !.zbuffer = [i \in Pixels |-> FarDepth]]

\* Framebuffer::new
NewFramebuffer ==
    clear([buffer |-> <<>>, zbuffer |-> <<>>, current_color |-> 0])

\* Framebuffer::set_current_color
set_current_color(fb, hex) == [fb EXCEPT !.current_color = hex]

\* Framebuffer::point(x, y, depth), x and y of type usize
point(fb, x, y, depth) ==
    IF x < FbWidth /\ y < FbHeight
    THEN IF FLt(depth, fb.zbuffer[PixelIndex(x, y)])
         THEN [fb EXCEPT !.buffer[PixelIndex(x, y)]  = fb.current_color,
                         !.zbuffer[PixelIndex(x, y)] = depth]
         ELSE fb
    ELSE fb

----------------------------------------------------------------------------
(* line.rs: draw_line *)

\* the extents test guarding the write: line 78
draw_in_bounds_upper_only(x, y) == x < FbWidth /\ y < FbHeight

draw_in_bounds(x, y) == x >= 0 /\ y >= 0 /\ x < FbWidth /\ y < FbHeight

\* `n as usize` of an isize: a negative value wraps around to a value
\* beyond every extent
isize_as_usize(n) == IF n < 0 THEN I32Max + (n + 1) ELSE n

\* the write of one traversal step: lines 78-81.  st carries the
\* framebuffer, the points visited and the point() calls made so far.
draw_write_stale_color(st, x, y, color) ==
    IF draw_in_bounds(x, y)
    THEN [st EXCEPT !.visited = Append(@, <<x, y>>),
                    !.calls = Append(@, <<isize_as_usize(x),
                                          isize_as_usize(y)>>),
                    !.fb = point(st.fb, isize_as_usize(x),
                                 isize_as_usize(y), F(0))]
    ELSE [st EXCEPT !.visited = Append(@, <<x, y>>)]

draw_write(st, x, y, color) ==
    IF draw_in_bounds(x, y)
    THEN [st EXCEPT !.visited = Append(@, <<x, y>>),
                    !.calls = Append(@, <<isize_as_usize(x),
                                          isize_as_usize(y)>>),
                    !.fb = point(set_current_color(st.fb, to_hex(color)),
                                 isize_as_usize(x), isize_as_usize(y), F(0))]
    ELSE [st EXCEPT !.visited = Append(@, <<x, y>>)]

\* the exit test of the loop: line 83
draw_break_either(s, x, y) == x = s.x2 \/ y = s.y2

draw_break(s, x, y) == x = s.x2 /\ y = s.y2

\* the test that steps x: line 88
draw_steps_x_always(s, e2) == TRUE

draw_steps_x(s, e2) == e2 > -s.dy

RECURSIVE draw_line_loop(_, _, _, _, _, _, _)
draw_line_loop(s, x, y, err, st, color, fuel) ==
    LET st1 == draw_write(st, x, y, color)
        e2  == 2 * err
        stx == draw_steps_x(s, e2)
        sty == e2 < s.dx
        err1 == IF stx THEN err - s.dy ELSE err
        err2 == IF sty THEN err1 + s.dx ELSE err1
    IN  IF draw_break(s, x, y)
        THEN [st1 EXCEPT !.terminated = TRUE]
        ELSE IF fuel = 0
        THEN st1
        ELSE draw_line_loop(s, IF stx THEN x + s.sx ELSE x,
                               IF sty THEN y + s.sy ELSE y,
                               err2, st1, color, fuel - 1)

draw_line(p1, p2, framebuffer, color) ==
    LET x1 == as_isize(p1.transformed_position.x)
        y1 == as_isize(p1.transformed_position.y)
        x2 == as_isize(p2.transformed_position.x)
        y2 == as_isize(p2.transformed_position.y)
        dx == Abs(x2 - x1)
        dy == Abs(y2 - y1)
        s  == [x2 |-> x2, y2 |-> y2, dx |-> dx, dy |-> dy,
               sx |-> IF x1 < x2 THEN 1 ELSE -1,
               sy |-> IF y1 < y2 THEN 1 ELSE -1]
        st == [fb |-> framebuffer, visited |-> <<>>, calls |-> <<>>,
               terminated |-> FALSE]
    IN  draw_line_loop(s, x1, y1, dx - dy, st, color, LineFuel)

----------------------------------------------------------------------------
(* Matrices and Uniforms *)

\* a sequence given as a function, evaluated once into a tuple
Tuple(q) == q \o <<>>

\* a local binding `let name = value;` followed by the rest of the body
Bind(value, Rest(_)) == Rest(value)

\* a Mat4 is a tuple of four rows, a Vec4 a tuple of four components
MatRow(m, v, i) ==
    FAdd(FAdd(FMul(m[i][1], v[1]), FMul(m[i][2], v[2])),
         FAdd(FMul(m[i][3], v[3]), FMul(m[i][4], v[4])))

\* Mat4 * Vec4
MatVec(m, v) == <<MatRow(m, v, 1), MatRow(m, v, 2), MatRow(m, v, 3),
                  MatRow(m, v, 4)>>

MatCol(m, j) == <<m[1][j], m[2][j], m[3][j], m[4][j]>>

\* Mat4 * Mat4
MatMulRow(m, n, i) ==
    <<MatRow(m, MatCol(n, 1), i), MatRow(m, MatCol(n, 2), i),
      MatRow(m, MatCol(n, 3), i), MatRow(m, MatCol(n, 4), i)>>

MatMul(m, n) ==
    <<MatMulRow(m, n, 1), MatMulRow(m, n, 2), MatMulRow(m, n, 3),
      MatMulRow(m, n, 4)>>

Identity ==
    <<<<F(1), F(0), F(0), F(0)>>, <<F(0), F(1), F(0), F(0)>>,
      <<F(0), F(0), F(1), F(0)>>, <<F(0), F(0), F(0), F(1)>>>>

\* glm::translation
Translation(tx, ty, tz) ==
    <<<<F(1), F(0), F(0), tx>>, <<F(0), F(1), F(0), ty>>,
      <<F(0), F(0), F(1), tz>>, <<F(0), F(0), F(0), F(1)>>>>

\* a noise sampler: FastNoiseLite::with_seed(seed) of a noise type
NoiseSampler(kind) == [kind |-> kind, seed |-> 1337]

create_open_simplex_noise == NoiseSampler(1)
create_cellular_noise     == NoiseSampler(2)
create_perlin_noise       == NoiseSampler(3)
create_value_noise        == NoiseSampler(4)
create_value_cubic_noise  == NoiseSampler(5)

Uniforms(model, view, projection, normal, time) ==
    [model_matrix |-> model, view_matrix |-> view,
     projection_matrix |-> projection, viewport_matrix |-> Identity,
     normal_matrix |-> normal, time |-> time,
     noise_open_simplex |-> create_open_simplex_noise,
     noise_cellular |-> create_cellular_noise,
     noise_perlin |-> create_perlin_noise,
     noise_value |-> create_value_noise,
     noise_value_cubic |-> create_value_cubic_noise]

----------------------------------------------------------------------------
(* shaders.rs: vertex_shader *)

\* largest r with r * r <= n
RECURSIVE ISqrtFrom(_, _)
ISqrtFrom(n, r) == IF (r + 1) * (r + 1) > n THEN r ELSE ISqrtFrom(n, r + 1)

\* square root; exact on the squares of rationals, rounded down to a
\* multiple of 1/d elsewhere
FSqrt(f) ==
    IF IsNaN(f) THEN NaN
    ELSE IF IsInf(f) THEN (IF f.n > 0 THEN PInf ELSE NaN)
    ELSE IF f.n < 0 THEN NaN
    ELSE Num(ISqrtFrom(f.n * f.d, 0), f.d)

\* Vec3::normalize: the vector divided by its norm
normalize(v) ==
    LET norm == FSqrt(FAdd(FAdd(FMul(v.x, v.x), FMul(v.y, v.y)),
                           FMul(v.z, v.z)))
    IN  Vec3(FDiv(v.x, norm), FDiv(v.y, norm), FDiv(v.z, norm))

\* the clip-space position: line 14
vertex_transformed(vertex, uniforms) ==
    MatVec(MatMul(MatMul(uniforms.projection_matrix, uniforms.view_matrix),
                  uniforms.model_matrix),
           <<vertex.position.x, vertex.position.y, vertex.position.z, F(1)>>)

\* the test guarding the perspective division: line 18 (w != 0.0 is true
\* of NaN)
vertex_divides_always(w) == TRUE

vertex_divides(w) == ~FEq(w, F(0))

\* the normal under the normal matrix: line 29
vertex_normal4(vertex, uniforms) ==
    MatVec(uniforms.normal_matrix,
           <<vertex.normal.x, vertex.normal.y, vertex.normal.z, F(0)>>)

vertex_shader_moving_position(vertex, uniforms) ==
    Bind(vertex_transformed(vertex, uniforms),
         LAMBDA transformed :
    Bind(vertex_normal4(vertex, uniforms),
         LAMBDA n4 :
    [position |-> Vec3(transformed[1], transformed[2], transformed[3]),
     normal |-> vertex.normal,
     tex_coords |-> vertex.tex_coords,
     color |-> vertex.color,
     transformed_position |->
        Vec3(transformed[1], transformed[2], transformed[3]),
     transformed_normal |-> normalize(Vec3(n4[1], n4[2], n4[3]))]))

vertex_shader(vertex, uniforms) ==
    Bind(vertex_transformed(vertex, uniforms),
         LAMBDA transformed :
    Bind(transformed[4],
         LAMBDA w :
    Bind(vertex_normal4(vertex, uniforms),
         LAMBDA n4 :
    [position |-> vertex.position,
     normal |-> vertex.normal,
     tex_coords |-> vertex.tex_coords,
     color |-> vertex.color,
     transformed_position |->
        IF vertex_divides(w)
        THEN Vec3(FDiv(transformed[1], w), FDiv(transformed[2], w),
                  FDiv(transformed[3], w))
        ELSE Vec3(transformed[1], transformed[2], transformed[3]),
     transformed_normal |-> normalize(Vec3(n4[1], n4[2], n4[3]))])))

----------------------------------------------------------------------------
(* triangle.rs: triangle, the barycentric rasterizer *)

FFloor(f) == f.n \div f.d
FCeil(f)  == -((-f.n) \div f.d)

FMin3(f, g, h) ==
    LET m == IF FLt(g, f) THEN g ELSE f IN IF FLt(h, m) THEN h ELSE m
FMax3(f, g, h) ==
    LET m == IF FLt(f, g) THEN g ELSE f IN IF FLt(m, h) THEN h ELSE m

\* twice the signed area of the triangle (p, q, r)
edge_function(p, q, r) ==
    FSub(FMul(FSub(r.x, p.x), FSub(q.y, p.y)),
         FMul(FSub(r.y, p.y), FSub(q.x, p.x)))

FClamp(f, lo, hi) == IF FLt(f, lo) THEN lo ELSE IF FLt(hi, f) THEN hi ELSE f

\* the light weight of a vertex: its transformed normal against the light
\* direction (0, 0, 1), kept in [0, 1]
VertexIntensity(v) == FClamp(v.transformed_normal.z, F(0), F(1))

Weighted(w1, w2, w3, f1, f2, f3) ==
    FAdd(FAdd(FMul(w1, f1), FMul(w2, f2)), FMul(w3, f3))

\* the barycentric weights of the centre of the pixel (x, y)
barycentric_coordinates(pa, pb, pcn, area, x, y) ==
    LET pt == Vec2(FAdd(F(x), Half), FAdd(F(y), Half))
    IN  <<FDiv(edge_function(pb, pcn, pt), area),
          FDiv(edge_function(pcn, pa, pt), area),
          FDiv(edge_function(pa, pb, pt), area)>>

\* the centre of the pixel is inside or on the boundary of the triangle
triangle_covers(w) ==
    /\ FLe(F(0), w[1]) /\ FLe(w[1], F(1))
    /\ FLe(F(0), w[2]) /\ FLe(w[2], F(1))
    /\ FLe(F(0), w[3]) /\ FLe(w[3], F(1))

\* the fragment of the covered pixel (x, y)
triangle_fragment(v1, v2, v3, area, x, y) ==
    LET pa == v1.transformed_position
        pb == v2.transformed_position
        pcn == v3.transformed_position
    IN  Bind(barycentric_coordinates(pa, pb, pcn, area, x, y),
             LAMBDA w :
        Fragment(Vec2(F(x), F(y)),
                 Weighted(w[1], w[2], w[3], pa.z, pb.z, pcn.z),
                 Weighted(w[1], w[2], w[3], VertexIntensity(v1),
                          VertexIntensity(v2), VertexIntensity(v3)),
                 Vec3(Weighted(w[1], w[2], w[3], v1.position.x,
                               v2.position.x, v3.position.x),
                      Weighted(w[1], w[2], w[3], v1.position.y,
                               v2.position.y, v3.position.y),
                      Weighted(w[1], w[2], w[3], v1.position.z,
                               v2.position.z, v3.position.z))))

\* the fragments of the pixels whose centre is inside or on the boundary
\* of the triangle, in scan order (rows, then columns) over the bounding
\* box; none for a degenerate triangle
triangle(v1, v2, v3) ==
    LET pa == v1.transformed_position
        pb == v2.transformed_position
        pcn == v3.transformed_position
        area == edge_function(pa, pb, pcn)
        defined == \A f \in {pa.x, pa.y, pb.x, pb.y, pcn.x, pcn.y} : IsNum(f)
    IN  IF ~defined THEN <<>>
        ELSE IF area = F(0) THEN <<>>
        ELSE LET min_x == FFloor(FMin3(pa.x, pb.x, pcn.x))
                 min_y == FFloor(FMin3(pa.y, pb.y, pcn.y))
                 max_x == FCeil(FMax3(pa.x, pb.x, pcn.x))
                 max_y == FCeil(FMax3(pa.y, pb.y, pcn.y))
                 wd == max_x - min_x + 1
                 ht == max_y - min_y + 1
                 box == [k \in 1 .. wd * ht |->
                            <<min_x + ((k - 1) % wd),
                              min_y + ((k - 1) \div wd)>>]
                 covered ==
                    SelectSeq(box, LAMBDA p :
                        triangle_covers(barycentric_coordinates(
                            pa, pb, pcn, area, p[1], p[2])))
             IN  Tuple([k \in 1 .. Len(covered) |->
                          triangle_fragment(v1, v2, v3, area, covered[k][1],
                                            covered[k][2])])

----------------------------------------------------------------------------
(* Color arithmetic: every operation saturates to 0 .. 255 *)

\* `f as u8`: truncates, saturates, NaN gives 0
as_u8(f) ==
    IF IsNaN(f) THEN 0
    ELSE IF IsInf(f) THEN (IF f.n > 0 THEN 255 ELSE 0)
    ELSE IF f.n < 0 THEN 0
    ELSE IF Trunc(f) > 255 THEN 255 ELSE Trunc(f)

\* Color * f32
ColorScale(c, f) ==
    Color(as_u8(FMul(F(c.r), f)), as_u8(FMul(F(c.g), f)),
          as_u8(FMul(F(c.b), f)))

Sat255(n) == IF n > 255 THEN 255 ELSE n

\* Color + Color and Color::blend_add
blend_add(c, o) == Color(Sat255(c.r + o.r), Sat255(c.g + o.g), Sat255(c.b + o.b))

\* Color::blend_multiply
blend_multiply(c, o) ==
    Color((c.r * o.r) \div 255, (c.g * o.g) \div 255, (c.b * o.b) \div 255)

\* Color::lerp
lerp(c, o, t) ==
    LET u == IF IsNaN(t) THEN F(0) ELSE FClamp(t, F(0), F(1))
        ch(x, y) == as_u8(FAdd(F(x), FMul(F(y - x), u)))
    IN  Color(ch(c.r, o.r), ch(c.g, o.g), ch(c.b, o.b))

----------------------------------------------------------------------------
(* Noise samplers and elementary functions *)

Dec(n, d) == Num(n, d)

\* a deterministic value in [-1, 1], in steps of 1/10, fixed by the sampler
\* and the sample point
NoiseHash(f) == IF IsNum(f) THEN f.n * 7 + f.d * 3 ELSE 0

NoiseAt(sampler, h) ==
    Num(((h + sampler.seed + 11 * sampler.kind) % 21) - 10, 10)

get_noise_2d(sampler, x, y) ==
    NoiseAt(sampler, NoiseHash(x) + 13 * NoiseHash(y))

get_noise_3d(sampler, x, y, z) ==
    NoiseAt(sampler, NoiseHash(x) + 13 * NoiseHash(y) + 17 * NoiseHash(z))

FAbs(f) == IF IsNaN(f) THEN NaN ELSE [f EXCEPT !.n = Abs(f.n)]

\* f32::min and f32::max return the other operand when one is NaN
FMinF(f, g) == IF IsNaN(f) THEN g ELSE IF IsNaN(g) THEN f
               ELSE IF FLt(g, f) THEN g ELSE f

\* f32::clamp
clamp(f, lo, hi) == IF IsNaN(f) THEN NaN ELSE FClamp(f, lo, hi)

\* sin, sampled at the eighths of its period: the argument is reduced to
\* the eighth it falls in (taking the period as 8 units)
SinTable == <<F(0), Dec(7, 10), F(1), Dec(7, 10), F(0), Dec(-7, 10), F(-1),
              Dec(-7, 10)>>

FSin(f) == IF ~IsNum(f) THEN NaN ELSE SinTable[(FFloor(f) % 8) + 1]
FCos(f) == IF ~IsNum(f) THEN NaN ELSE SinTable[((FFloor(f) + 2) % 8) + 1]

\* exp, by its second-order expansion: at least 1 for f >= 0, in (0, 1]
\* for f < 0
FExp(f) ==
    IF IsNaN(f) THEN NaN
    ELSE IF IsInf(f) THEN (IF f.n > 0 THEN PInf ELSE F(0))
    ELSE IF f.n >= 0 THEN FAdd(FAdd(F(1), f), FDiv(FMul(f, f), F(2)))
    ELSE FDiv(F(1), FAdd(FAdd(F(1), FNeg(f)), FDiv(FMul(f, f), F(2))))

\* atan2, to the octant of the direction (x, y), in the units of FSin
FAtan2(y, x) ==
    IF ~IsNum(y) \/ ~IsNum(x) THEN NaN
    ELSE IF x.n > 0 THEN (IF y.n > 0 THEN F(1) ELSE IF y.n < 0 THEN F(-1)
                          ELSE F(0))
    ELSE IF x.n < 0 THEN (IF y.n > 0 THEN F(3) ELSE IF y.n < 0 THEN F(-3)
                          ELSE F(4))
    ELSE (IF y.n > 0 THEN F(2) ELSE IF y.n < 0 THEN F(-2) ELSE F(0))

----------------------------------------------------------------------------
(* fragment.rs: the shader strategies and their dispatch *)

solar_shader(fragment, uniforms) ==
    LET x == fragment.vertex_position.x
        y == fragment.vertex_position.y
        time_factor ==
            FAdd(FMul(FSin(FMul(F(uniforms.time), Dec(1, 20))), Dec(2, 5)),
                 Dec(4, 5))
        zoom == F(15)
        noise_value ==
            FAdd(FMul(get_noise_2d(uniforms.noise_open_simplex,
                                   FMul(x, zoom), FMul(y, zoom)),
                      Dec(3, 10)), Dec(7, 10))
        surface_intensity ==
            FMul(FAdd(Dec(9, 10), FMul(noise_value, Dec(1, 10))), time_factor)
        core_color ==
            ColorScale(Color(as_u8(FMul(F(255), surface_intensity)),
                             as_u8(FMul(F(200), surface_intensity)),
                             as_u8(FMul(F(50), surface_intensity))),
                       fragment.intensity)
        distance_to_center == FSqrt(FAdd(FMul(x, x), FMul(y, y)))
        halo_threshold == F(0)
        halo_intensity ==
            IF FGt(distance_to_center, halo_threshold)
            THEN FMinF(FExp(FMul(FSub(distance_to_center, halo_threshold),
                                 F(3))), F(1))
            ELSE F(0)
        halo_color == ColorScale(Color(255, 140, 0), halo_intensity)
        ambient_color == ColorScale(Color(255, 100, 50), Dec(1, 10))
    IN  blend_add(blend_add(core_color, halo_color), ambient_color)

volcanic_planet_shader(fragment, uniforms) ==
    LET x == fragment.vertex_position.x
        y == fragment.vertex_position.y
        zoom == F(600)
        noise_value == get_noise_2d(uniforms.noise_value_cubic,
                                    FMul(x, zoom), FMul(y, zoom))
        normalized_noise ==
            clamp(FMul(FAdd(noise_value, F(1)), Half), F(0), F(1))
        color_roca == Color(139, 69, 19)
        color_sombra == Color(105, 60, 45)
        color_mineral == Color(189, 183, 107)
        color_intermediate ==
            lerp(color_roca, color_sombra, FMul(normalized_noise, Dec(4, 5)))
        base_color ==
            lerp(color_intermediate, color_mineral,
                 FMul(normalized_noise, Half))
    IN  blend_add(ColorScale(base_color, fragment.intensity),
                  ColorScale(Color(40, 20, 20), Dec(3, 10)))

molten_core_planet_shader(fragment, uniforms) ==
    LET zoom == F(10)
        x == fragment.vertex_position.x
        y == fragment.vertex_position.y
        time == FMul(F(uniforms.time), Dec(1, 20))
        lava_pattern ==
            FAbs(FMul(FSin(FAdd(FMul(x, zoom), time)),
                      FCos(FAdd(FMul(y, zoom), time))))
        noise_value == get_noise_2d(uniforms.noise_cellular,
                                    FMul(x, zoom), FMul(y, zoom))
        lava_color == Color(255, as_u8(FMul(F(80), lava_pattern)), 0)
        rock_color ==
            Color(as_u8(FMul(F(50), FSub(F(1), noise_value))), 0, 0)
    IN  IF FGt(noise_value, Dec(3, 10))
        THEN blend_add(lava_color, rock_color)
        ELSE blend_multiply(rock_color, lava_color)

crystal_planet_shader(fragment, uniforms) ==
    LET zoom == F(20)
        x == fragment.vertex_position.x
        y == fragment.vertex_position.y
        time == FMul(F(uniforms.time), Dec(3, 100))
        crystal_pattern ==
            FAbs(get_noise_2d(uniforms.noise_cellular,
                              FMul(x, zoom), FMul(y, zoom)))
        angle_variation ==
            FMul(FAdd(FAbs(FSin(FAdd(FAdd(FMul(x, Half), FMul(y, Half)),
                                     time))), Half), Half)
        base_color ==
            Color(as_u8(FMul(F(120), angle_variation)),
                  as_u8(FMul(F(160), crystal_pattern)),
                  as_u8(FMul(F(255), angle_variation)))
        highlight_color ==
            ColorScale(Color(255, 255, 255),
                       FAdd(Dec(3, 10), FMul(angle_variation, Dec(7, 10))))
    IN  blend_add(base_color, highlight_color)

vortex_planet_shader(fragment, uniforms) ==
    LET x == fragment.vertex_position.x
        y == fragment.vertex_position.y
        time == FMul(F(uniforms.time), Dec(3, 100))
        radius == FSqrt(FAdd(FMul(x, x), FMul(y, y)))
        angle == FAdd(FAtan2(y, x), time)
        vortex_zoom == F(10)
        noise_zoom == F(20)
        vortex_pattern ==
            FAbs(FMul(FSin(FMul(angle, vortex_zoom)),
                      FCos(FMul(radius, vortex_zoom))))
        noise_value == get_noise_2d(uniforms.noise_perlin,
                                    FMul(x, noise_zoom), FMul(y, noise_zoom))
        normalized_noise ==
            clamp(FMul(FAdd(noise_value, F(1)), Half), F(0), F(1))
        combined_pattern ==
            clamp(FAdd(FMul(vortex_pattern, Dec(7, 10)),
                       FMul(normalized_noise, Dec(3, 10))), F(0), F(1))
        base_color ==
            Color(as_u8(FAdd(F(50), FMul(F(205), combined_pattern))),
                  as_u8(FAdd(F(50), FMul(F(155),
                                         FSub(F(1), combined_pattern)))),
                  as_u8(FAdd(F(150), FMul(F(105), combined_pattern))))
        highlight_intensity ==
            clamp(FAdd(FMul(normalized_noise, Half), Half), F(0), F(1))
        highlight_color ==
            Color(as_u8(FMul(F(255), highlight_intensity)),
                  as_u8(FMul(F(200), highlight_intensity)),
                  as_u8(FMul(F(150), highlight_intensity)))
    IN  ColorScale(blend_add(base_color, highlight_color),
                   fragment.intensity)

\* u8 + u8 of the release build: wraps modulo 256
WrappingAddU8(m, n) == (m + n) % 256

\* the cast of the blue channel of ringed_planet: line 195
ringed_blue_cast_wide(combined_pattern) ==
    as_u8(FMul(FSub(Half, combined_pattern), F(500)))

ringed_blue_cast(combined_pattern) ==
    as_u8(FMul(FSub(Half, combined_pattern), F(50)))

\* the blue channel of ringed_planet: line 195
ringed_blue(combined_pattern) ==
    WrappingAddU8(ringed_blue_cast(combined_pattern), 20)

ringed_planet(fragment, uniforms) ==
    LET zoom == F(4)
        y == fragment.vertex_position.y
        time == FMul(F(uniforms.time), Dec(3, 100))
        yz == FMul(y, zoom)
        band_pattern ==
            FAbs(FMul(FSin(yz), FCos(FAdd(FMul(yz, Half), time))))
        secondary_pattern ==
            FAbs(FMul(FCos(FSub(FMul(yz, Dec(4, 5)), time)),
                      FSin(FAdd(FMul(yz, Dec(3, 10)), time))))
        combined_pattern ==
            FMinF(FAdd(FMul(band_pattern, Dec(7, 10)),
                       FMul(secondary_pattern, Dec(3, 10))), F(1))
        r == as_u8(FMul(combined_pattern, F(230)))
        g == as_u8(FMul(FSub(F(1), combined_pattern), F(150)))
        bl == ringed_blue(combined_pattern)
        base_color == Color(r, g, bl)
    IN  blend_add(ColorScale(base_color, fragment.intensity),
                  ColorScale(Color(100, 50, 30), Dec(2, 5)))

ring_shader(fragment, uniforms) ==
    LET color1 == Color(220, 200, 180)
        color2 == Color(150, 100, 70)
        color3 == Color(50, 30, 20)
        position == Vec3(fragment.vertex_position.x,
                         fragment.vertex_position.y, fragment.depth)
        zoom == F(10)
        noise_zoom == F(50)
        line_pattern == FAbs(FSin(FMul(position.y, zoom)))
        ruido == get_noise_3d(uniforms.noise_open_simplex,
                              FMul(position.x, noise_zoom),
                              FMul(position.y, noise_zoom),
                              FMul(position.z, noise_zoom))
        val_normalizado ==
            clamp(FAdd(FMul(line_pattern, Dec(7, 10)),
                       FMul(ruido, Dec(3, 10))), F(0), F(1))
        color_intermediate == lerp(color1, color2, val_normalizado)
        final_color == lerp(color_intermediate, color3, val_normalizado)
    IN  ColorScale(final_color, Dec(9, 10))

rocky_planet(fragment, uniforms) ==
    LET color_roca == Color(139, 69, 19)
        color_sombra == Color(105, 60, 45)
        color_mineral == Color(189, 183, 107)
        zoom == F(1000)
        x == FMul(fragment.vertex_position.x, zoom)
        y == FMul(fragment.vertex_position.y, zoom)
        noise_value == get_noise_2d(uniforms.noise_value, x, y)
        normalized_noise ==
            clamp(FMul(FAdd(noise_value, F(1)), Half), F(0), F(1))
        is_fracture == FGt(normalized_noise, Dec(35, 100))
        color_intermediate ==
            lerp(color_roca, color_sombra, FMul(normalized_noise, Dec(4, 5)))
        base_color ==
            lerp(color_intermediate, color_mineral,
                 FMul(normalized_noise, Half))
        final_color == IF is_fracture THEN Color(60, 30, 10) ELSE base_color
    IN  ColorScale(final_color, fragment.intensity)

\* three octaves: lacunarity 2.76 and gain 0.12
ruido_fractal(noise, x, y) ==
    LET n1 == get_noise_2d(noise, x, y)
        n2 == get_noise_2d(noise, FMul(x, Dec(69, 25)), FMul(y, Dec(69, 25)))
        n3 == get_noise_2d(noise, FMul(x, Dec(4761, 625)),
                           FMul(y, Dec(4761, 625)))
        total == FAdd(FAdd(n1, FMul(n2, Dec(3, 25))), FMul(n3, Dec(9, 625)))
        max_value == FAdd(FAdd(F(1), Dec(3, 25)), Dec(9, 625))
    IN  FDiv(total, max_value)

moon_shader(fragment, uniforms) ==
    LET zoom == F(80)
        x == FMul(fragment.vertex_position.x, zoom)
        y == FMul(fragment.vertex_position.y, zoom)
        ruido == ruido_fractal(uniforms.noise_open_simplex, x, y)
        color_base == Color(50, 50, 50)
        color_sombra == Color(20, 20, 20)
        color_claro == Color(150, 150, 150)
        factor == FDiv(FAdd(ruido, F(1)), F(2))
        color_final ==
            lerp(lerp(color_base, color_sombra, FMul(factor, Dec(4, 5))),
                 color_claro, FMul(factor, Half))
    IN  ColorScale(color_final, fragment.intensity)

earth_like_planet_shader(fragment, uniforms) ==
    LET x == fragment.vertex_position.x
        y == fragment.vertex_position.y
        zoom == F(200)
        noise_value == get_noise_2d(uniforms.noise_perlin,
                                    FMul(x, zoom), FMul(y, zoom))
        normalized_noise ==
            clamp(FDiv(FAdd(noise_value, F(1)), F(2)), F(0), F(1))
        sea_level == Dec(3, 5)
        is_land == FGt(normalized_noise, sea_level)
        ocean_color == Color(0, 105, 148)
        land_color == Color(34, 139, 34)
        base_color == IF is_land THEN land_color ELSE ocean_color
    IN  ColorScale(base_color, fragment.intensity)

\* the dispatch on the tag: lines 337-349
fragment_shader_default_vortex(fragment, uniforms, shader_type) ==
    IF shader_type = "solar_surface" THEN solar_shader(fragment, uniforms)
    ELSE vortex_planet_shader(fragment, uniforms)

fragment_shader(fragment, uniforms, shader_type) ==
    CASE shader_type = "solar_surface" -> solar_shader(fragment, uniforms)
      [] shader_type = "volcanic_planet_shader" ->
            volcanic_planet_shader(fragment, uniforms)
      [] shader_type = "molten_core_planet_shader" ->
            molten_core_planet_shader(fragment, uniforms)
      [] shader_type = "crystal_planet_shader" ->
            crystal_planet_shader(fragment, uniforms)
      [] shader_type = "vortex" -> vortex_planet_shader(fragment, uniforms)
      [] shader_type = "ringed_planet" -> ringed_planet(fragment, uniforms)
      [] shader_type = "ring_shader" -> ring_shader(fragment, uniforms)
      [] shader_type = "moon_shader" -> moon_shader(fragment, uniforms)
      [] shader_type = "rocky_planet" -> rocky_planet(fragment, uniforms)
      [] shader_type = "earth_like_planet_shader" ->
            earth_like_planet_shader(fragment, uniforms)
      [] OTHER -> Color(0, 0, 0)

----------------------------------------------------------------------------
(* main.rs: render *)

\* the test that the triple starting at index i is complete: line 142
render_complete_triple_short(i, len) == i + 3 < len

render_complete_triple(i, len) == i + 2 < len

\* the triangulation loop: lines 140-149 (i counts from 0 in steps of 3)
RECURSIVE render_triangulate(_, _, _)
render_triangulate(tv, i, acc) ==
    IF i >= Len(tv) THEN acc
    ELSE render_triangulate(tv, i + 3,
            IF render_complete_triple(i, Len(tv))
            THEN Append(acc, <<tv[i + 1], tv[i + 2], tv[i + 3]>>)
            ELSE acc)

\* the rasterization loop: lines 152-155
RECURSIVE render_rasterize(_, _, _)
render_rasterize(triangles, k, acc) ==
    IF k > Len(triangles) THEN acc
    ELSE render_rasterize(triangles, k + 1,
            acc \o triangle(triangles[k][1], triangles[k][2],
                            triangles[k][3]))

\* the order in which the n fragments are processed: line 158
render_order_reversed(n) == [k \in 1 .. n |-> n + 1 - k]

render_order(n) == [k \in 1 .. n |-> k]

\* the extents test of a fragment: lines 159-161
render_in_bounds(fragment) ==
    LET x == as_usize(fragment.position.x)
        y == as_usize(fragment.position.y)
    IN  x < FbWidth /\ y < FbHeight

\* the arguments of set_current_color and point for the i-th fragment:
\* lines 159-164
render_call_constant_depth(fragment, i, uniforms, shader_type) ==
    [i |-> i,
     x |-> as_usize(fragment.position.x),
     y |-> as_usize(fragment.position.y),
     hex |-> to_hex(fragment_shader(fragment, uniforms, shader_type)),
     depth |-> F(0)]

render_call(fragment, i, uniforms, shader_type) ==
    [i |-> i,
     x |-> as_usize(fragment.position.x),
     y |-> as_usize(fragment.position.y),
     hex |-> to_hex(fragment_shader(fragment, uniforms, shader_type)),
     depth |-> fragment.depth]

\* set_current_color and point for one fragment: lines 163-164
render_write_keeping_color(fb, c) == point(fb, c.x, c.y, c.depth)

render_write(fb, c) ==
    point(set_current_color(fb, c.hex), c.x, c.y, c.depth)

\* set_current_color and point for the calls cs[k], cs[k+1], ... in order
RECURSIVE apply_calls(_, _, _)
apply_calls(fb, cs, k) ==
    IF k > Len(cs) THEN fb
    ELSE apply_calls(render_write(fb, cs[k]), cs, k + 1)

\* the loop over the fragments: lines 158-166.  A point() call reads and
\* writes the one pixel it names, so the framebuffer left by the loop is
\* obtained pixel by pixel from the calls that name the pixel, in the order
\* the loop makes them; current_color is the colour of the last call.
render_fragments(framebuffer, frags, uniforms, shader_type) ==
    Bind(SelectSeq(Tuple(render_order(Len(frags))),
                   LAMBDA i : render_in_bounds(frags[i])),
         LAMBDA passing :
    Bind(Tuple([k \in 1 .. Len(passing) |->
                  render_call(frags[passing[k]], passing[k], uniforms,
                              shader_type)]),
         LAMBDA calls :
    Bind([px \in Pixels |->
            apply_calls(framebuffer,
                        SelectSeq(calls, LAMBDA c :
                            PixelIndex(c.x, c.y) = px), 1)],
         LAMBDA after :
    [fb |-> [buffer |-> [px \in Pixels |-> after[px].buffer[px]],
             zbuffer |-> [px \in Pixels |-> after[px].zbuffer[px]],
             current_color |->
                IF calls = <<>> THEN framebuffer.current_color
                ELSE calls[Len(calls)].hex],
     calls |-> calls])))

render(framebuffer, uniforms, vertex_array, shader_type) ==
    Bind(Tuple([i \in 1 .. Len(vertex_array) |->
                  vertex_shader(vertex_array[i], uniforms)]),
         LAMBDA transformed_vertices :
    Bind(render_triangulate(transformed_vertices, 0, <<>>),
         LAMBDA triangles :
    Bind(render_rasterize(triangles, 1, <<>>),
         LAMBDA frags :
    Bind(render_fragments(framebuffer, frags, uniforms, shader_type),
         LAMBDA st :
    [fb |-> st.fb, triangles |-> triangles, fragments |-> frags,
     calls |-> st.calls]))))

----------------------------------------------------------------------------
(* Inputs of the line rasterizer *)

\* screen coordinates: the integers -1 .. MaxCoord and one fractional value
ScreenCoords == {F(i) : i \in -1 .. MaxCoord} \cup {FAdd(F(1), Half)}
LineDepths   == {F(0), F(4)}
ObjPositions == {Vec3(F(0), F(0), F(0)), Vec3(F(9), F(9), F(9))}

LineVertices ==
    {ScreenVertex(p, Vec3(x, y, z)) :
        p \in ObjPositions, x \in ScreenCoords, y \in ScreenCoords,
        z \in LineDepths}

NoCall == [op |-> "none"]

InitFramebufferIdle ==
    /\ ncalls = 0
    /\ buffer = <<>>
    /\ zbuffer = <<>>
    /\ current_color = 0
    /\ call = NoCall

InitLine ==
    /\ pc = "ready"
    /\ a \in LineVertices
    /\ b \in LineVertices
    /\ fragments = [terminated |-> TRUE, frags |-> <<>>]
    /\ InitFramebufferIdle

Line ==
    /\ pc = "ready"
    /\ pc' = "done"
    /\ fragments' = line(a, b)
    /\ UNCHANGED <<ncalls, a, b, buffer, zbuffer, current_color, call>>

NextLine == Line

SpecLine == InitLine /\ [][NextLine]_vars

----------------------------------------------------------------------------
(* Direct-write line drawing into the framebuffer *)

Framebuffer == [buffer |-> buffer, zbuffer |-> zbuffer,
                current_color |-> current_color]

SetFramebuffer(fb) ==
    /\ buffer' = fb.buffer
    /\ zbuffer' = fb.zbuffer
    /\ current_color' = fb.current_color

White == Color(255, 255, 255)
Red   == Color(255, 0, 0)
DrawColors == {White, Red}

\* endpoints of the drawn lines: on screen, off screen on every side, and
\* one with fractional coordinates
DrawPoints ==
    {Vec3(F(0), F(0), F(0)), Vec3(F(FbWidth - 1), F(1), F(0)),
     Vec3(F(1), F(FbHeight - 1), F(0)), Vec3(F(-1), F(-1), F(0)),
     Vec3(F(FbWidth), F(FbHeight + 1), F(0)), Vec3(F(-2), F(1), F(0)),
     Vec3(FAdd(F(1), Half), FAdd(F(1), Half), F(0))}

DrawVertices == {ScreenVertex(Zeros, p) : p \in DrawPoints}

InitDraw ==
    /\ pc = "frame"
    /\ ncalls = 0
    /\ a = ScreenVertex(Zeros, Zeros)
    /\ b = a
    /\ fragments = [terminated |-> TRUE, frags |-> <<>>]
    /\ buffer = NewFramebuffer.buffer
    /\ zbuffer = NewFramebuffer.zbuffer
    /\ current_color = NewFramebuffer.current_color
    /\ call = NoCall

\* framebuffer.clear() at the start of a frame
Clear ==
    /\ pc = "frame"
    /\ ncalls > 0
    /\ ncalls' = 0
    /\ SetFramebuffer(clear(Framebuffer))
    /\ call' = [op |-> "clear"]
    /\ UNCHANGED <<pc, a, b, fragments>>

\* one call draw_line(p1, p2, framebuffer, color)
DrawLine ==
    /\ pc = "frame"
    /\ ncalls < MaxCalls
    /\ \E p1 \in DrawVertices, p2 \in DrawVertices, color \in DrawColors :
         LET r == draw_line(p1, p2, Framebuffer, color)
         IN  /\ a' = p1
             /\ b' = p2
             /\ SetFramebuffer(r.fb)
             /\ call' = [op |-> "draw_line", color |-> color,
                         pre |-> Framebuffer, visited |-> r.visited,
                         calls |-> r.calls, terminated |-> r.terminated]
    /\ ncalls' = ncalls + 1
    /\ UNCHANGED <<pc, fragments>>

NextDraw == Clear \/ DrawLine

SpecDraw == InitDraw /\ [][NextDraw]_vars

----------------------------------------------------------------------------
(* Draw calls of render into the framebuffer *)

MaxRenders == 1    \* render calls issued between two clears

\* a mesh vertex as the mesh provider hands it over, not yet transformed
MeshVertex(x, y, z, normal) ==
    Vertex(Vec3(F(x), F(y), F(z)), normal, Zeros, Zeros)

Tilted == Vec3(F(0), Dec(3, 5), Dec(4, 5))

\* the triangle of the end-to-end scenario, at depth 5
TriA == <<MeshVertex(0, 0, 5, ZAxis), MeshVertex(4, 0, 5, ZAxis),
          MeshVertex(0, 4, 5, ZAxis)>>
\* a closer triangle inside it, lit differently
TriB == <<MeshVertex(0, 0, 3, Tilted), MeshVertex(2, 0, 3, Tilted),
          MeshVertex(0, 2, 3, Tilted)>>
\* a triangle at the depth of TriA, lit differently
TriC == <<MeshVertex(0, 0, 5, Tilted), MeshVertex(3, 0, 5, Tilted),
          MeshVertex(0, 3, 5, Tilted)>>
\* a triangle reaching off screen to the left
TriLeft == <<MeshVertex(-2, 0, 1, ZAxis), MeshVertex(1, 0, 1, ZAxis),
             MeshVertex(-2, 3, 1, ZAxis)>>
\* a degenerate triangle
TriFlat == <<MeshVertex(0, 0, 1, ZAxis), MeshVertex(1, 1, 1, ZAxis),
             MeshVertex(2, 2, 1, ZAxis)>>
Loose1 == <<MeshVertex(1, 1, 0, ZAxis)>>
Loose2 == <<MeshVertex(1, 1, 0, ZAxis), MeshVertex(3, 2, 0, ZAxis)>>

VertexArrays ==
    {<<>>, Loose2, TriA \o Loose1, TriA \o TriB \o Loose2, TriB \o TriA,
     TriA \o TriC, TriC \o TriA, TriLeft, TriFlat \o TriB}

\* the transforms of a draw call: none, and a shift of the mesh to the
\* upper left
RenderUniforms ==
    {Uniforms(Identity, Identity, Identity, Identity, 1),
     Uniforms(Translation(F(-1), F(-1), F(0)), Identity, Identity,
              Identity, 1)}

\* a tag of the catalogue, and the tag main passes for the orbits
RenderTags == {"earth_like_planet_shader", "orbit_shader"}

InitRender == InitDraw

\* one call render(framebuffer, uniforms, vertex_array, shader_type)
Render ==
    /\ pc = "frame"
    /\ ncalls < MaxRenders
    /\ \E vertex_array \in VertexArrays, uniforms \in RenderUniforms,
          shader_type \in RenderTags :
         \E r \in {render(Framebuffer, uniforms, vertex_array,
                            shader_type)} :
             /\ SetFramebuffer(r.fb)
             /\ call' = [op |-> "render", pre |-> Framebuffer,
                         vertex_array |-> vertex_array,
                         uniforms |-> uniforms, shader_type |-> shader_type,
                         triangles |-> r.triangles,
                         fragments |-> r.fragments, calls |-> r.calls]
    /\ ncalls' = ncalls + 1
    /\ UNCHANGED <<pc, a, b, fragments>>

NextRender == Clear \/ Render

SpecRender == InitRender /\ [][NextRender]_vars

----------------------------------------------------------------------------
(* Calls of fragment_shader *)

MaxShades == 2    \* calls of fragment_shader on the same arguments

\* the ten tags of the catalogue: lines 338-347
CatalogueTags ==
    {"solar_surface", "volcanic_planet_shader", "molten_core_planet_shader",
     "crystal_planet_shader", "vortex", "ringed_planet", "ring_shader",
     "moon_shader", "rocky_planet", "earth_like_planet_shader"}

\* strings outside the catalogue: tags main passes for the orbits and the
\* vortex planet, the empty string and a tag in another letter case
OtherTags == {"orbit_shader", "vortex_shader", "", "Moon_Shader"}

ShadeTags == CatalogueTags \cup OtherTags

ShadePositions ==
    {Vec3(F(0), F(0), F(0)), Vec3(Half, Dec(1, 4), F(0)),
     Vec3(F(1), F(2), F(3))}

ShadeIntensities == {F(0), Half, F(1)}

ShadeFragments ==
    {Fragment(Vec2(F(1), F(1)), F(1), i, p) :
        i \in ShadeIntensities, p \in ShadePositions}

ShadeUniforms ==
    {Uniforms(Identity, Identity, Identity, Identity, t) : t \in {0, 7, 40}}

\* one call fragment_shader(&fragment, &uniforms, shader_type): the colour
\* returned and the arguments as the call leaves them (both are borrowed
\* immutably: line 336)
shade_call_advancing_time(fragment, uniforms, shader_type) ==
    [color |-> fragment_shader(fragment, uniforms, shader_type),
     fragment |-> fragment,
     uniforms |-> [uniforms EXCEPT !.time = @ + 1]]

shade_call(fragment, uniforms, shader_type) ==
    [color |-> fragment_shader(fragment, uniforms, shader_type),
     fragment |-> fragment,
     uniforms |-> uniforms]

InitShade ==
    /\ pc = "shade"
    /\ ncalls = 0
    /\ a = ScreenVertex(Zeros, Zeros)
    /\ b = a
    /\ fragments = [terminated |-> TRUE, frags |-> <<>>]
    /\ buffer = <<>>
    /\ zbuffer = <<>>
    /\ current_color = 0
    /\ \E fragment \in ShadeFragments, uniforms \in ShadeUniforms,
          shader_type \in ShadeTags :
         call = [op |-> "arguments", fragment |-> fragment,
                 uniforms |-> uniforms, shader_type |-> shader_type,
                 given |-> [fragment |-> fragment, uniforms |-> uniforms],
                 color |-> Color(0, 0, 0), previous |-> Color(0, 0, 0)]

\* fragment_shader called on the arguments the previous call left
Shade ==
    /\ pc = "shade"
    /\ ncalls < MaxShades
    /\ \E r \in {shade_call(call.fragment, call.uniforms,
                             call.shader_type)} :
         call' = [op |-> "shade", fragment |-> r.fragment,
                  uniforms |-> r.uniforms, shader_type |-> call.shader_type,
                  given |-> [fragment |-> call.fragment,
                             uniforms |-> call.uniforms],
                  color |-> r.color, previous |-> call.color]
    /\ ncalls' = ncalls + 1
    /\ UNCHANGED <<pc, a, b, fragments, buffer, zbuffer, current_color>>

NextShade == Shade

SpecShade == InitShade /\ [][NextShade]_vars

----------------------------------------------------------------------------
(* Calls of vertex_shader *)

\* a mesh vertex with texture coordinates, a colour and the transformed
\* fields a previous frame left in it
ShaderVertex(position, normal) ==
    [Vertex(position, normal, Vec3(F(7), F(7), F(7)), ZAxis)
        EXCEPT !.tex_coords = Vec2(Half, Dec(1, 4)),
               !.color = Color(10, 20, 30)]

VertexPositions ==
    {Vec3(F(0), F(0), F(0)), Vec3(F(1), F(2), F(3)), Vec3(F(2), F(0), F(-1)),
     Vec3(F(4), F(2), F(2))}

VertexNormals == {ZAxis, Zeros, Tilted}

ShaderVertices ==
    {ShaderVertex(p, n) : p \in VertexPositions, n \in VertexNormals}

\* a projection whose w is the z of its argument, as a perspective
\* projection gives, and one that doubles w
ProjectionWIsZ ==
    <<<<F(1), F(0), F(0), F(0)>>, <<F(0), F(1), F(0), F(0)>>,
      <<F(0), F(0), F(1), F(0)>>, <<F(0), F(0), F(1), F(0)>>>>

Scaling(k) ==
    <<<<k, F(0), F(0), F(0)>>, <<F(0), k, F(0), F(0)>>,
      <<F(0), F(0), k, F(0)>>, <<F(0), F(0), F(0), k>>>>

VertexUniforms ==
    {Uniforms(model, Identity, projection, normal, 1) :
        model \in {Identity, Translation(F(1), F(0), F(1))},
        projection \in {Identity, ProjectionWIsZ, Scaling(F(2))},
        normal \in {Identity, Scaling(F(0)), Scaling(F(2))}}

\* one call vertex_shader(&vertex, &uniforms) -> Vertex: the value returned,
\* its type, and the arguments as the call leaves them (line 5)
vertex_call(vertex, uniforms) ==
    [returned |-> vertex_shader(vertex, uniforms),
     kind |-> "Vertex",
     vertex |-> vertex,
     uniforms |-> uniforms]

InitVertex ==
    /\ pc = "vertex"
    /\ ncalls = 0
    /\ a = ScreenVertex(Zeros, Zeros)
    /\ b = a
    /\ fragments = [terminated |-> TRUE, frags |-> <<>>]
    /\ buffer = <<>>
    /\ zbuffer = <<>>
    /\ current_color = 0
    /\ \E vertex \in ShaderVertices, uniforms \in VertexUniforms :
         call = [op |-> "arguments", vertex |-> vertex,
                 uniforms |-> uniforms]

VertexShader ==
    /\ pc = "vertex"
    /\ ncalls = 0
    /\ \E r \in {vertex_call(call.vertex, call.uniforms)} :
         call' = [op |-> "vertex_shader", vertex |-> r.vertex,
                  uniforms |-> r.uniforms,
                  given |-> [vertex |-> call.vertex,
                             uniforms |-> call.uniforms],
                  returned |-> r.returned, kind |-> r.kind]
    /\ ncalls' = 1
    /\ UNCHANGED <<pc, a, b, fragments, buffer, zbuffer, current_color>>

NextVertex == VertexShader

SpecVertex == InitVertex /\ [][NextVertex]_vars

----------------------------------------------------------------------------
(* main.rs: the frame loop of main *)

MaxFrames == 2        \* iterations of the frame loop
MaxFrameDraws == 2    \* draw calls between the clear and the presentation

\* the framebuffer at the start of an iteration: line 411
frame_begin_keeping(fb) == fb

frame_begin(fb) == clear(fb)

\* the meshes drawn by render in a frame, with their tags
FrameMeshes ==
    {<<TriA, "earth_like_planet_shader">>, <<TriB, "solar_surface">>}

\* the orbit segment drawn by render_orbit: lines 188-198
FrameSegments ==
    {<<ScreenVertex(Zeros, Vec3(F(0), F(FbHeight - 1), F(0))),
       ScreenVertex(Zeros, Vec3(F(FbWidth - 1), F(FbHeight - 1), F(0)))>>}

\* the pixels named by the point() calls of a draw call
CalledPixels(calls) ==
    {PixelIndex(calls[k].x, calls[k].y) : k \in 1 .. Len(calls)}

VisitedPixels(calls) ==
    {PixelIndex(calls[k][1], calls[k][2]) : k \in 1 .. Len(calls)}

InitFrame ==
    /\ pc = "loop"
    /\ ncalls = 0
    /\ a = ScreenVertex(Zeros, Zeros)
    /\ b = a
    /\ fragments = [terminated |-> TRUE, frags |-> <<>>]
    /\ buffer = NewFramebuffer.buffer
    /\ zbuffer = NewFramebuffer.zbuffer
    /\ current_color = NewFramebuffer.current_color
    /\ call = [op |-> "start", time |-> 0, cleared |-> FALSE,
               presents |-> 0, touched |-> {},
               presented |-> NewFramebuffer.buffer,
               earlier |-> NewFramebuffer.buffer]

\* the head of an iteration: the window is open and Escape is not down,
\* the time counter advances and the framebuffer is cleared (lines 404-411)
FrameBegin ==
    /\ pc = "loop"
    /\ call.time < MaxFrames
    /\ pc' = "drawing"
    /\ ncalls' = 0
    /\ SetFramebuffer(frame_begin(Framebuffer))
    /\ call' = [op |-> "clear", time |-> call.time + 1, cleared |-> TRUE,
                presents |-> 0, touched |-> {},
                presented |-> call.presented, earlier |-> call.earlier]
    /\ UNCHANGED <<a, b, fragments>>

\* the window was closed or Escape is down: lines 404-407
FrameExit ==
    /\ pc = "loop"
    /\ pc' = "exited"
    /\ call' = [call EXCEPT !.op = "exit"]
    /\ UNCHANGED <<ncalls, a, b, fragments, buffer, zbuffer, current_color>>

\* a render call of the iteration: lines 492-858
FrameRender ==
    /\ pc = "drawing"
    /\ ncalls < MaxFrameDraws
    /\ \E m \in FrameMeshes :
         \E r \in {render(Framebuffer,
                           Uniforms(Identity, Identity, Identity, Identity,
                                    call.time), m[1], m[2])} :
             /\ SetFramebuffer(r.fb)
             /\ call' = [call EXCEPT !.op = "render",
                            !.touched = @ \cup CalledPixels(r.calls)]
    /\ ncalls' = ncalls + 1
    /\ UNCHANGED <<pc, a, b, fragments>>

\* a draw_line call of render_orbit: lines 535 and 196
FrameDrawLine ==
    /\ pc = "drawing"
    /\ ncalls < MaxFrameDraws
    /\ \E g \in FrameSegments :
         \E r \in {draw_line(g[1], g[2], Framebuffer, White)} :
             /\ SetFramebuffer(r.fb)
             /\ call' = [call EXCEPT !.op = "draw_line",
                            !.touched = @ \cup VisitedPixels(r.calls)]
    /\ ncalls' = ncalls + 1
    /\ UNCHANGED <<pc, a, b, fragments>>

\* window.update_with_buffer(&framebuffer.buffer, ..).unwrap() after the
\* render of the ship, the last draw call: lines 858-863.  An Err of the
\* window ends the program in the unwrap.
FramePresent ==
    /\ pc = "drawing"
    /\ ncalls >= 1
    /\ \E ok \in BOOLEAN :
         pc' = IF ok THEN "loop" ELSE "exited"
    /\ call' = [call EXCEPT !.op = "present", !.presents = @ + 1,
                   !.presented = buffer, !.earlier = call.presented]
    /\ UNCHANGED <<ncalls, a, b, fragments, buffer, zbuffer, current_color>>

NextFrame ==
    FrameBegin \/ FrameExit \/ FrameRender \/ FrameDrawLine \/ FramePresent

SpecFrame == InitFrame /\ [][NextFrame]_vars

----------------------------------------------------------------------------
(* The current colour across the draw calls of main *)

\* the colours main sets before a render call: lines 654, 686, 718, 784, 820
MainColors == {16729344, 65535, 16711935, 11184810, 16777215}

\* the colours handed to point() for each pixel by the calls of a render
RenderHexes(calls) ==
    [px \in Pixels |->
        {calls[k].hex : k \in {j \in 1 .. Len(calls) :
                                  PixelIndex(calls[j].x, calls[j].y) = px}}]

\* the colour handed to point() for each pixel by a draw_line
DrawLineHexes(calls, color) ==
    [px \in Pixels |->
        IF px \in VisitedPixels(calls) THEN {to_hex(color)} ELSE {}]

\* framebuffer.set_current_color(0x...) of main before a render call
ColorSet ==
    /\ pc = "frame"
    /\ call.op # "set_current_color"
    /\ \E hex \in MainColors :
         /\ SetFramebuffer(set_current_color(Framebuffer, hex))
         /\ call' = [op |-> "set_current_color", pre |-> Framebuffer,
                     hexes |-> [px \in Pixels |-> {}]]
    /\ UNCHANGED <<pc, ncalls, a, b, fragments>>

\* framebuffer.clear() at the start of the next frame: line 411
ColorClear ==
    /\ pc = "frame"
    /\ ncalls > 0
    /\ ncalls' = 0
    /\ SetFramebuffer(clear(Framebuffer))
    /\ call' = [op |-> "clear", pre |-> Framebuffer,
                hexes |-> [px \in Pixels |-> {}]]
    /\ UNCHANGED <<pc, a, b, fragments>>

\* a render call of the frame
ColorRender ==
    /\ pc = "frame"
    /\ ncalls < MaxFrameDraws
    /\ \E m \in FrameMeshes :
         \E r \in {render(Framebuffer,
                           Uniforms(Identity, Identity, Identity, Identity,
                                    1), m[1], m[2])} :
             /\ SetFramebuffer(r.fb)
             /\ call' = [op |-> "render", pre |-> Framebuffer,
                         hexes |-> RenderHexes(r.calls)]
    /\ ncalls' = ncalls + 1
    /\ UNCHANGED <<pc, a, b, fragments>>

\* a draw_line call of the frame
ColorDrawLine ==
    /\ pc = "frame"
    /\ ncalls < MaxFrameDraws
    /\ \E g \in FrameSegments, color \in DrawColors :
         \E r \in {draw_line(g[1], g[2], Framebuffer, color)} :
             /\ SetFramebuffer(r.fb)
             /\ call' = [op |-> "draw_line", pre |-> Framebuffer,
                         hexes |-> DrawLineHexes(r.calls, color)]
    /\ ncalls' = ncalls + 1
    /\ UNCHANGED <<pc, a, b, fragments>>

NextColor == ColorSet \/ ColorClear \/ ColorRender \/ ColorDrawLine

SpecColor == InitDraw /\ [][NextColor]_vars

----------------------------------------------------------------------------
(* main.rs: the shader tags of the scene's draw calls *)

\* the shader fields of a Planet; "None" stands for Option::None
Planet(name, shader, ring, moon) ==
    [name |-> name, shader |-> shader, ring_shader |-> ring,
     moon_shader |-> moon]

\* the planets of main: lines 250-342
planets ==
    <<Planet("Mercury", "molten_core_planet_shader", "None", "None"),
      Planet("Venus", "volcanic_planet_shader", "None", "None"),
      Planet("Earth", "earth_like_planet_shader", "None", "moon_shader"),
      Planet("Mars", "rocky_planet", "None", "None"),
      Planet("Jupiter", "gas_giant_shader", "None", "None"),
      Planet("Saturn", "ringed_planet", "ring_shader", "moon_shader"),
      Planet("Uranus", "crystal_planet_shader", "None", "None")>>

\* the values of selected_object: lines 373-381
SelectedObjects ==
    {"STAR", "VOLCANIC_PLANET", "CRYSTAL", "VORTEX", "RINGED_PLANET",
     "ROCKY_PLANET", "EARTH_LIKE_PLANET"}

\* the tags of the render calls made for one planet: lines 563-626
planet_tags(planet) ==
    {planet.shader}
        \cup (IF planet.ring_shader # "None" THEN {planet.ring_shader}
              ELSE {})
        \cup (IF planet.moon_shader # "None" THEN {planet.moon_shader}
              ELSE {})

\* the tags of the render calls of `match selected_object`: lines 633-829
selected_tags(selected_object) ==
    CASE selected_object = "VOLCANIC_PLANET" -> {"volcanic_planet_shader"}
      [] selected_object = "CRYSTAL" -> {"crystal_planet_shader"}
      [] selected_object = "VORTEX" -> {"vortex_shader"}
      [] selected_object = "RINGED_PLANET" ->
            {planets[i].shader : i \in {j \in 1 .. Len(planets) :
                                           planets[j].name = "Saturn"}}
            \cup {planets[i].ring_shader :
                     i \in {j \in 1 .. Len(planets) :
                              /\ planets[j].name = "Saturn"
                              /\ planets[j].ring_shader # "None"}}
      [] selected_object = "ROCKY_PLANET" -> {"rocky_planet", "moon_shader"}
      [] selected_object = "EARTH_LIKE_PLANET" ->
            {"earth_like_planet_shader"}
      [] OTHER -> {}

\* the tags of all render calls of one frame: lines 476-858
scene_tags(selected_object) ==
    {"orbit_shader", "solar_surface", "jet_shader"}
        \cup UNION {planet_tags(planets[i]) : i \in 1 .. Len(planets)}
        \cup selected_tags(selected_object)

\* the tags with an arm of their own in fragment_shader: lines 337-346
fragment_shader_arms == CatalogueTags

InitScene ==
    /\ pc = "scene"
    /\ ncalls = 0
    /\ a = ScreenVertex(Zeros, Zeros)
    /\ b = a
    /\ fragments = [terminated |-> TRUE, frags |-> <<>>]
    /\ buffer = NewFramebuffer.buffer
    /\ zbuffer = NewFramebuffer.zbuffer
    /\ current_color = NewFramebuffer.current_color
    /\ call = [op |-> "start", selected_object |-> "STAR",
               shader_type |-> "", color |-> Color(0, 0, 0)]

\* a key press selecting another object: lines 456-470
SceneSelect ==
    /\ pc = "scene"
    /\ \E selected_object \in SelectedObjects :
         /\ selected_object # call.selected_object
         /\ call' = [op |-> "select", selected_object |-> selected_object,
                     shader_type |-> "", color |-> Color(0, 0, 0)]
    /\ ncalls' = 0
    /\ UNCHANGED <<pc, a, b, fragments, buffer, zbuffer, current_color>>

\* the shading of one fragment of one render call of the frame
SceneShade ==
    /\ pc = "scene"
    /\ ncalls < MaxShades
    /\ \E shader_type \in scene_tags(call.selected_object),
          fragment \in ShadeFragments, uniforms \in ShadeUniforms :
         call' = [op |-> "shade",
                  selected_object |-> call.selected_object,
                  shader_type |-> shader_type,
                  color |-> fragment_shader(fragment, uniforms,
                                            shader_type)]
    /\ ncalls' = ncalls + 1
    /\ UNCHANGED <<pc, a, b, fragments, buffer, zbuffer, current_color>>

NextScene == SceneSelect \/ SceneShade

SpecScene == InitScene /\ [][NextScene]_vars

----------------------------------------------------------------------------
(* main.rs: create_orbit_points and render_orbit *)

MaxSegments == 4    \* segments of an orbit (100 in main, scaled down)

\* the i-th point of the orbit, i counting from 0: lines 171-181.  The
\* angle is in the units of FSin, where a full turn (2 * PI) is 8.
create_orbit_point(center, radius, segments, i) ==
    Bind(FMul(FMul(FDiv(as_f32(i), as_f32(segments)), F(2)), F(4)),
         LAMBDA angle :
    Vertex(Vec3(FAdd(center.x, FMul(radius, FCos(angle))),
                FAdd(center.y, FMul(radius, FSin(angle))), F(0)),
           ZAxis, Zeros, Zeros))

create_orbit_points(center, radius, segments) ==
    [k \in 1 .. segments |->
        create_orbit_point(center, radius, segments, k - 1)]

\* the loop of render_orbit from index i (counting from 0): lines 193-197.
\* st carries the framebuffer and, for each draw_line call made so far,
\* the points it visited.
RECURSIVE render_orbit_loop(_, _, _, _)
render_orbit_loop(points, i, st, color) ==
    IF i >= Len(points) THEN st
    ELSE Bind(draw_line(points[i + 1],
                        points[((i + 1) % Len(points)) + 1], st.fb, color),
              LAMBDA r :
         render_orbit_loop(points, i + 1,
                           [fb |-> r.fb,
                            lines |-> Append(st.lines, r.visited)],
                           color))

render_orbit(framebuffer, points, color) ==
    render_orbit_loop(points, 0, [fb |-> framebuffer, lines |-> <<>>],
                      color)

\* centres and radii of the orbits, in pixels
OrbitCenters ==
    {Vec3(F(x), F(y), F(0)) : x \in 0 .. FbWidth - 1, y \in 0 .. 1}
OrbitRadii == {F(0), F(1), F(2)}

InitOrbit ==
    /\ pc = "orbit"
    /\ ncalls = 0
    /\ a = ScreenVertex(Zeros, Zeros)
    /\ b = a
    /\ fragments = [terminated |-> TRUE, frags |-> <<>>]
    /\ buffer = NewFramebuffer.buffer
    /\ zbuffer = NewFramebuffer.zbuffer
    /\ current_color = NewFramebuffer.current_color
    /\ call = NoCall

\* create_orbit_points and render_orbit for one planet: lines 529-535
RenderOrbit ==
    /\ pc = "orbit"
    /\ ncalls < MaxCalls
    /\ \E center \in OrbitCenters, radius \in OrbitRadii,
          segments \in 1 .. MaxSegments, color \in DrawColors :
         \E points \in {create_orbit_points(center, radius, segments)} :
         \E r \in {render_orbit(Framebuffer, points, color)} :
             /\ SetFramebuffer(r.fb)
             /\ call' = [op |-> "render_orbit", points |-> points,
                         lines |-> r.lines]
    /\ ncalls' = ncalls + 1
    /\ UNCHANGED <<pc, a, b, fragments>>

NextOrbit == RenderOrbit

SpecOrbit == InitOrbit /\ [][NextOrbit]_vars

----------------------------------------------------------------------------
(* main.rs: the camera scale under handle_warp and handle_input *)

MaxZoom == 6    \* zooming in stops at this scale (unbounded in main)

\* the rounding of an f32 product, to the nearest thousandth (the 24-bit
\* significand of f32, scaled down); the operand is positive
f32_round(f) ==
    IF ~IsNum(f) THEN f
    ELSE Num((2 * f.n * 1000 + f.d) \div (2 * f.d), 1000)

\* zoom_level of the planets of main, in order: lines 250-342
zoom_levels ==
    <<Dec(3, 2), Dec(3, 2), Dec(3, 2), Dec(3, 2), F(2), F(2), Dec(9, 5)>>

\* handle_warp: the scale after the call, key being the index of the first
\* warp key held down, 0 when none is: lines 932-945
handle_warp(camera_scale, key) ==
    IF key >= 1 /\ key <= Len(zoom_levels) THEN zoom_levels[key]
    ELSE camera_scale

\* the lower limit applied after zooming out: lines 909-911
zoom_out_floor_none(scale) == scale

zoom_out_floor(scale) ==
    IF FLt(scale, Dec(1, 10)) THEN Dec(1, 10) ELSE scale

\* handle_input: the scale after the call, with the Q and E keys held
\* down or not: lines 873, 904-912
handle_input(scale, q_down, e_down) ==
    Bind(IF q_down THEN f32_round(FMul(scale, FAdd(F(1), Dec(1, 20))))
         ELSE scale,
         LAMBDA zoomed :
    IF e_down
    THEN zoom_out_floor(f32_round(FMul(zoomed, FSub(F(1), Dec(1, 20)))))
    ELSE zoomed)

\* the factor 1.0 / scale of create_view_matrix: line 117
view_scale_factor(scale) == FDiv(F(1), scale)

InitCamera ==
    /\ pc = "camera"
    /\ ncalls = 0
    /\ a = ScreenVertex(Zeros, Zeros)
    /\ b = a
    /\ fragments = [terminated |-> TRUE, frags |-> <<>>]
    /\ buffer = NewFramebuffer.buffer
    /\ zbuffer = NewFramebuffer.zbuffer
    /\ current_color = NewFramebuffer.current_color
    /\ call = [op |-> "start", camera_scale |-> F(5), factor |-> F(0),
               q_down |-> FALSE, e_down |-> FALSE, before |-> F(5)]

\* the camera update of one frame: handle_warp, handle_input and
\* create_view_matrix, lines 424-428
CameraFrame ==
    /\ pc = "camera"
    /\ \E key \in 0 .. Len(zoom_levels), q_down \in BOOLEAN,
          e_down \in BOOLEAN :
         \E scale \in {handle_input(handle_warp(call.camera_scale, key),
                                     q_down, e_down)} :
             /\ FLe(scale, F(MaxZoom))
             /\ call' = [op |-> "view", camera_scale |-> scale,
                         factor |-> view_scale_factor(scale),
                         q_down |-> q_down, e_down |-> e_down,
                         before |-> handle_warp(call.camera_scale, key)]
    /\ UNCHANGED <<pc, ncalls, a, b, fragments, buffer, zbuffer,
                   current_color>>

NextCamera == CameraFrame

SpecCamera == InitCamera /\ [][NextCamera]_vars

----------------------------------------------------------------------------
(* The blue channel of ringed_planet *)

PatternSteps == 100    \* combined_pattern ranges over k / PatternSteps

\* the values of combined_pattern: the result of `.min(1.0)` on a sum of
\* absolute values lies in [0, 1] (line 190)
CombinedPatterns == {Num(k, PatternSteps) : k \in 0 .. PatternSteps}

InitBlue ==
    /\ pc = "pattern"
    /\ ncalls = 0
    /\ a = ScreenVertex(Zeros, Zeros)
    /\ b = a
    /\ fragments = [terminated |-> TRUE, frags |-> <<>>]
    /\ buffer = NewFramebuffer.buffer
    /\ zbuffer = NewFramebuffer.zbuffer
    /\ current_color = NewFramebuffer.current_color
    /\ \E combined_pattern \in CombinedPatterns :
         call = [op |-> "pattern", combined_pattern |-> combined_pattern,
                 cast |-> 0, sum |-> 0, blue |-> 0]

\* the computation of b in ringed_planet: line 195
Blue ==
    /\ pc = "pattern"
    /\ pc' = "blue"
    /\ call' = [op |-> "blue", combined_pattern |-> call.combined_pattern,
                cast |-> ringed_blue_cast(call.combined_pattern),
                sum |-> ringed_blue_cast(call.combined_pattern) + 20,
                blue |-> ringed_blue(call.combined_pattern)]
    /\ UNCHANGED <<ncalls, a, b, fragments, buffer, zbuffer, current_color>>

NextBlue == Blue

SpecBlue == InitBlue /\ [][NextBlue]_vars

----------------------------------------------------------------------------
(* line and draw_line over the same endpoints *)

\* both endpoints on the integer grid -1 .. MaxCoord
TraverseVertices ==
    {ScreenVertex(Zeros, Vec3(F(x), F(y), F(0))) :
        x \in -1 .. MaxCoord, y \in -1 .. MaxCoord}

InitTraverse ==
    /\ pc = "endpoints"
    /\ ncalls = 0
    /\ a \in TraverseVertices
    /\ b \in TraverseVertices
    /\ fragments = [terminated |-> TRUE, frags |-> <<>>]
    /\ buffer = NewFramebuffer.buffer
    /\ zbuffer = NewFramebuffer.zbuffer
    /\ current_color = NewFramebuffer.current_color
    /\ call = NoCall

\* line(a, b) and draw_line(a, b, framebuffer, color) on the same vertices
Traverse ==
    /\ pc = "endpoints"
    /\ pc' = "traversed"
    /\ fragments' = line(a, b)
    /\ \E r \in {draw_line(a, b, Framebuffer, White)} :
         /\ SetFramebuffer(r.fb)
         /\ call' = [op |-> "traverse", visited |-> r.visited,
                     terminated |-> r.terminated]
    /\ ncalls' = 1
    /\ UNCHANGED <<a, b>>

NextTraverse == Traverse

SpecTraverse == InitTraverse /\ [][NextTraverse]_vars

----------------------------------------------------------------------------
(* Properties of line *)

IsIntegral(f) == IsNum(f) /\ f.d = 1

IntegerEndpoints ==
    /\ IsIntegral(a.transformed_position.x)
    /\ IsIntegral(a.transformed_position.y)
    /\ IsIntegral(b.transformed_position.x)
    /\ IsIntegral(b.transformed_position.y)

\* differences of the endpoints' integer coordinates
EndDx == b.transformed_position.x.n - a.transformed_position.x.n
EndDy == b.transformed_position.y.n - a.transformed_position.y.n
EndN  == IF Abs(EndDx) >= Abs(EndDy) THEN Abs(EndDx) ELSE Abs(EndDy)

LineDone == pc = "done" /\ call.op = "none"

\* C5: for endpoints with integer screen coordinates, line terminates and
\* returns exactly max(|dx|, |dy|) + 1 fragments (one when a and b share a
\* pixel).
C5_LineLength ==
    (LineDone /\ IntegerEndpoints) =>
        /\ fragments.terminated
        /\ Len(fragments.frags) = EndN + 1

C5_Witness ==
    /\ LineDone /\ IntegerEndpoints
    /\ Abs(EndDx) = 2 /\ Abs(EndDy) = 4
    /\ Len(fragments.frags) = 5

FragX(i) == fragments.frags[i].position.x
FragY(i) == fragments.frags[i].position.y

\* C6: the fragments of line form a connected path from a's pixel to b's
\* pixel: each step moves exactly one pixel toward b along the dominant axis
\* and at most one pixel (toward b) along the other axis.
C6_LineConnected ==
    (LineDone /\ IntegerEndpoints) =>
        LET fs == fragments.frags
            n  == Len(fs)
            xdom == Abs(EndDx) >= Abs(EndDy)
            ydom == Abs(EndDy) >= Abs(EndDx)
        IN  /\ n >= 1
            /\ FragX(1) = a.transformed_position.x
            /\ FragY(1) = a.transformed_position.y
            /\ FragX(n) = b.transformed_position.x
            /\ FragY(n) = b.transformed_position.y
            /\ \A i \in 1 .. n - 1 :
                 LET mx == FragX(i + 1).n - FragX(i).n
                     my == FragY(i + 1).n - FragY(i).n
                 IN  /\ IsIntegral(FragX(i + 1)) /\ IsIntegral(FragY(i + 1))
                     /\ xdom => mx = Sign(EndDx)
                     /\ ydom => my = Sign(EndDy)
                     /\ mx \in {0, Sign(EndDx)}
                     /\ my \in {0, Sign(EndDy)}

\* C6 (example): the line (0,0) -> (4,0) yields x = 0,1,2,3,4 in that
\* order, all at y = 0.
C6_Witness ==
    /\ LineDone
    /\ a.transformed_position.x = F(0) /\ a.transformed_position.y = F(0)
    /\ b.transformed_position.x = F(4) /\ b.transformed_position.y = F(0)
    /\ Len(fragments.frags) = 5
    /\ \A i \in 1 .. 5 : FragX(i) = F(i - 1) /\ FragY(i) = F(0)

\* the depth d lies between the two endpoint depths
BetweenEndpointDepths(d) ==
    LET za == a.transformed_position.z
        zb == b.transformed_position.z
    IN  \/ FLe(za, d) /\ FLe(d, zb)
        \/ FLe(zb, d) /\ FLe(d, za)

\* C7: for a vertical line (both endpoints have the same x, a = b included)
\* every emitted fragment's depth is a defined value lying between the two
\* endpoint depths.
C7_VerticalDepthDefined ==
    (LineDone /\ a.transformed_position.x = b.transformed_position.x) =>
        \A i \in 1 .. Len(fragments.frags) :
            /\ IsNum(fragments.frags[i].depth)
            /\ BetweenEndpointDepths(fragments.frags[i].depth)

\* C8: for integer endpoints and n = max(|dx|, |dy|) >= 1 the k-th fragment
\* (k = 0..n) has depth a.z + (b.z - a.z) * k / n.
C8_DepthLinearInStep ==
    (LineDone /\ IntegerEndpoints /\ EndN >= 1) =>
        \A i \in 1 .. Len(fragments.frags) :
            fragments.frags[i].depth =
                FAdd(a.transformed_position.z,
                     FDiv(FMul(FSub(b.transformed_position.z,
                                    a.transformed_position.z),
                               as_f32(i - 1)),
                          as_f32(EndN)))

\* C14: every fragment emitted by line(a, b) carries in vertex_position the
\* object-space position (Vertex.position) of its originating vertex, not a
\* transformed coordinate.
C14_LineCarriesObjectPosition ==
    LineDone =>
        \A k \in 1 .. Len(fragments.frags) :
            fragments.frags[k].vertex_position \in {a.position, b.position}

----------------------------------------------------------------------------
(* Properties of draw_line *)

InExtents(x, y) == x >= 0 /\ y >= 0 /\ x < FbWidth /\ y < FbHeight

DrawDone == call.op = "draw_line"

SeqRange(q) == {q[i] : i \in 1 .. Len(q)}

\* the pixels of the traversal that lie inside the framebuffer extents
VisitedInside == {p \in SeqRange(call.visited) : InExtents(p[1], p[2])}

C10_DrawLineClips ==
    DrawDone =>
        /\ call.terminated
        /\ \A p \in SeqRange(call.calls) : InExtents(p[1], p[2])
        /\ SeqRange(call.calls) = VisitedInside
        /\ \A x \in 0 .. FbWidth - 1, y \in 0 .. FbHeight - 1 :
             <<x, y>> \notin VisitedInside =>
                 /\ buffer[PixelIndex(x, y)] = call.pre.buffer[PixelIndex(x, y)]
                 /\ zbuffer[PixelIndex(x, y)] = call.pre.zbuffer[PixelIndex(x, y)]
        /\ \A p \in VisitedInside :
             FLt(F(0), call.pre.zbuffer[PixelIndex(p[1], p[2])]) =>
                 buffer[PixelIndex(p[1], p[2])] = to_hex(call.color)

\* a line that starts off screen at negative coordinates and ends on screen
C10_Witness ==
    /\ DrawDone
    /\ call.pre.buffer = [i \in Pixels |-> background_color]
    /\ \E p \in SeqRange(call.visited) : p[1] < 0 /\ p[2] < 0
    /\ \E p \in SeqRange(call.visited) : p[1] >= FbWidth
    /\ \E p \in VisitedInside :
         buffer[PixelIndex(p[1], p[2])] = to_hex(call.color)

\* C20: for endpoints with integer coordinates draw_line terminates after
\* exactly max(|dx|, |dy|) + 1 iterations of its loop and is at (x2, y2) in
\* the last one, also when points of the traversal lie outside the
\* framebuffer.
C20_DrawLineTerminates ==
    (DrawDone /\ IntegerEndpoints) =>
        /\ call.terminated
        /\ Len(call.visited) = EndN + 1
        /\ call.visited[Len(call.visited)] =
               <<b.transformed_position.x.n, b.transformed_position.y.n>>

\* a diagonal traversal that starts and ends outside the framebuffer
C20_Witness ==
    /\ DrawDone /\ IntegerEndpoints
    /\ a.transformed_position = Vec3(F(-1), F(-1), F(0))
    /\ b.transformed_position = Vec3(F(FbWidth), F(FbHeight + 1), F(0))
    /\ Len(call.visited) = FbHeight + 3
    /\ VisitedInside # {}

----------------------------------------------------------------------------
(* Properties of render *)

RenderDone == call.op = "render"

\* the vertices of the last render call after the vertex stage
CallTransformed ==
    [i \in 1 .. Len(call.vertex_array) |->
        vertex_shader(call.vertex_array[i], call.uniforms)]

\* the fragments of the triangles (3k, 3k+1, 3k+2), k = 0 .. m - 1, of the
\* last render call
RECURSIVE TripleFragments(_)
TripleFragments(m) ==
    IF m = 0 THEN <<>>
    ELSE TripleFragments(m - 1) \o
         triangle(CallTransformed[3 * (m - 1) + 1],
                  CallTransformed[3 * (m - 1) + 2],
                  CallTransformed[3 * (m - 1) + 3])

\* C1: render rasterizes exactly floor(n/3) triangles, the triples
\* (3k, 3k+1, 3k+2) in input order; the trailing n mod 3 vertices contribute
\* no fragment, and for n < 3 the framebuffer is left unchanged.
C1_TriplesRasterized ==
    RenderDone =>
        LET n == Len(call.vertex_array)
        IN  /\ Len(call.triangles) = n \div 3
            /\ \A k \in 0 .. (n \div 3) - 1 :
                 call.triangles[k + 1] =
                     <<CallTransformed[3 * k + 1], CallTransformed[3 * k + 2],
                       CallTransformed[3 * k + 3]>>
            /\ call.fragments = TripleFragments(n \div 3)
            /\ n < 3 => /\ call.fragments = <<>>
                        /\ buffer = call.pre.buffer
                        /\ zbuffer = call.pre.zbuffer

\* two complete triples followed by two trailing vertices
C1_Witness ==
    /\ RenderDone
    /\ Len(call.vertex_array) = 8
    /\ Len(call.triangles) = 2
    /\ Len(call.fragments) > 0
    /\ buffer # call.pre.buffer

\* the screen position lies inside the framebuffer extents
PositionInExtents(pos) ==
    /\ FLe(F(0), pos.x) /\ FLt(pos.x, F(FbWidth))
    /\ FLe(F(0), pos.y) /\ FLt(pos.y, F(FbHeight))

\* C2: a fragment whose screen position lies outside the framebuffer
\* extents (negative coordinates included) causes no write: no point() call
\* is made for it.
C2_OutsideNeverWritten ==
    RenderDone =>
        \A k \in 1 .. Len(call.calls) :
            PositionInExtents(call.fragments[call.calls[k].i].position)

\* the point() calls of the last render that name the pixel px, in the
\* order they were made
CallsAt(px) ==
    SelectSeq(call.calls, LAMBDA c : PixelIndex(c.x, c.y) = px)

FragmentDepth(c) == call.fragments[c.i].depth

\* the pixel was cleared before the call and exactly two fragments land on it
TwoOnCleared(px) ==
    /\ RenderDone
    /\ call.pre.zbuffer[px] = FarDepth
    /\ Len(CallsAt(px)) = 2

\* C3: when two fragments with distinct depths land on the same pixel of a
\* cleared framebuffer, the pixel ends up with the colour and the depth of
\* the closer one, whichever is processed first.
C3_CloserWins ==
    \A px \in Pixels :
        TwoOnCleared(px) =>
            LET c1 == CallsAt(px)[1]
                c2 == CallsAt(px)[2]
            IN  /\ FLt(FragmentDepth(c1), FragmentDepth(c2)) =>
                     buffer[px] = c1.hex /\ zbuffer[px] = FragmentDepth(c1)
                /\ FLt(FragmentDepth(c2), FragmentDepth(c1)) =>
                     buffer[px] = c2.hex /\ zbuffer[px] = FragmentDepth(c2)

\* the closer fragment is processed first and the farther one, of another
\* colour, is rejected
C3_Witness ==
    \E px \in Pixels :
        /\ TwoOnCleared(px)
        /\ FLt(FragmentDepth(CallsAt(px)[1]), FragmentDepth(CallsAt(px)[2]))
        /\ CallsAt(px)[1].hex # CallsAt(px)[2].hex
        /\ buffer[px] = CallsAt(px)[1].hex

----------------------------------------------------------------------------
(* Properties of fragment_shader *)

ShadeDone == call.op = "shade"

IsColor(c) == c.r \in 0 .. 255 /\ c.g \in 0 .. 255 /\ c.b \in 0 .. 255

Black == Color(0, 0, 0)

\* C11: fragment_shader returns a colour for every tag string: each of the
\* ten catalogue tags gives the colour of its own strategy on the same
\* fragment and uniforms, and every other string gives Color(0, 0, 0).
C11_DispatchTotal ==
    ShadeDone =>
        LET f == call.given.fragment
            u == call.given.uniforms
            t == call.shader_type
        IN  /\ IsColor(call.color)
            /\ t = "solar_surface" => call.color = solar_shader(f, u)
            /\ t = "volcanic_planet_shader" =>
                    call.color = volcanic_planet_shader(f, u)
            /\ t = "molten_core_planet_shader" =>
                    call.color = molten_core_planet_shader(f, u)
            /\ t = "crystal_planet_shader" =>
                    call.color = crystal_planet_shader(f, u)
            /\ t = "vortex" => call.color = vortex_planet_shader(f, u)
            /\ t = "ringed_planet" => call.color = ringed_planet(f, u)
            /\ t = "ring_shader" => call.color = ring_shader(f, u)
            /\ t = "moon_shader" => call.color = moon_shader(f, u)
            /\ t = "rocky_planet" => call.color = rocky_planet(f, u)
            /\ t = "earth_like_planet_shader" =>
                    call.color = earth_like_planet_shader(f, u)
            /\ t \notin CatalogueTags => call.color = Black

\* a lit fragment shaded under a tag that is not in the catalogue
C11_Witness ==
    /\ ShadeDone
    /\ call.shader_type = "vortex_shader"
    /\ call.given.fragment.intensity = F(1)
    /\ call.color = Black
AmbientTerm(shader_type) ==
    CASE shader_type = "solar_surface" ->
            ColorScale(Color(255, 100, 50), Dec(1, 10))
      [] shader_type = "volcanic_planet_shader" ->
            ColorScale(Color(40, 20, 20), Dec(3, 10))
      [] shader_type = "ringed_planet" ->
            ColorScale(Color(100, 50, 30), Dec(2, 5))
      [] OTHER -> Black

\* C13: every catalogued strategy scales its composed colour by the
\* fragment's intensity before adding an ambient term: a fragment of
\* intensity 0 is shaded black or with the constant ambient term of the
\* strategy alone, whatever the noise samples, the position and the time.
C13_UnlitIsAmbientOnly ==
    (/\ ShadeDone
     /\ call.shader_type \in CatalogueTags
     /\ call.given.fragment.intensity = F(0))
        => call.color \in {Black, AmbientTerm(call.shader_type)}
----------------------------------------------------------------------------
(* Properties of vertex_shader *)

VertexDone == call.op = "vertex_shader"

\* projection * view * model * (position, 1) of the call
GivenTransformed == vertex_transformed(call.given.vertex, call.given.uniforms)

GivenW == GivenTransformed[4]

\* C15: when the w of projection*view*model*(position, 1) is 0,
\* transformed_position is the undivided (x, y, z); when w is not 0 it is
\* (x/w, y/w, z/w).  No component is the outcome of a division by zero.
C15_NoDivisionByZeroW ==
    VertexDone =>
        LET t == GivenTransformed
            w == GivenW
            tp == call.returned.transformed_position
        IN  /\ w = F(0) => tp = Vec3(t[1], t[2], t[3])
            /\ w # F(0) =>
                    tp = Vec3(FDiv(t[1], w), FDiv(t[2], w), FDiv(t[3], w))
            /\ IsNum(tp.x) /\ IsNum(tp.y) /\ IsNum(tp.z)

\* a vertex the model matrix moves to z = 0, under the projection whose w
\* is z
C15_Witness ==
    /\ VertexDone
    /\ GivenW = F(0)
    /\ call.given.vertex.position = Vec3(F(2), F(0), F(-1))
    /\ call.returned.transformed_position = Vec3(F(3), F(0), F(0))
\* C16: a transform that yields w = 0 for the vertex is reported to the
\* caller: the call of vertex_shader does not return an ordinary vertex.
C16_ZeroWReported ==
    (VertexDone /\ GivenW = F(0)) => call.kind # "Vertex"

\* the normal of the call under the normal matrix
GivenNormal4 == vertex_normal4(call.given.vertex, call.given.uniforms)

\* C17: when normal_matrix * (normal, 0) is the zero vector, the
\* transformed_normal returned by vertex_shader is still a defined value:
\* no component is NaN.
C17_ZeroNormalGuarded ==
    (/\ VertexDone
     /\ GivenNormal4[1] = F(0) /\ GivenNormal4[2] = F(0)
     /\ GivenNormal4[3] = F(0))
        => LET tn == call.returned.transformed_normal
           IN  IsNum(tn.x) /\ IsNum(tn.y) /\ IsNum(tn.z)

\* C18: the vertex returned by vertex_shader has the position, normal,
\* tex_coords and color of the input vertex and no field besides these and
\* the two transformed ones; the input vertex and the uniforms are as they
\* were given.
C18_VertexShaderPure ==
    VertexDone =>
        /\ call.returned.position = call.given.vertex.position
        /\ call.returned.normal = call.given.vertex.normal
        /\ call.returned.tex_coords = call.given.vertex.tex_coords
        /\ call.returned.color = call.given.vertex.color
        /\ DOMAIN call.returned = DOMAIN call.given.vertex
        /\ call.vertex = call.given.vertex
        /\ call.uniforms = call.given.uniforms

\* a call that recomputes both transformed fields of a vertex whose
\* position differs from its transformed position
C18_Witness ==
    /\ VertexDone
    /\ call.given.vertex.position = Vec3(F(1), F(2), F(3))
    /\ call.returned.transformed_position = Vec3(F(2), F(2), F(4))
    /\ call.returned.transformed_position
            # call.given.vertex.transformed_position
    /\ call.returned.transformed_normal = Tilted
    /\ call.given.vertex.transformed_normal = ZAxis
----------------------------------------------------------------------------
(* Properties of the frame loop *)

\* C19: in every iteration of the frame loop framebuffer.clear() has run
\* before each render and draw_line call, the pixel buffer is handed to the
\* window once, after the draw calls of the iteration, and a pixel of the
\* presented buffer that no draw call of the iteration wrote holds the
\* background colour: nothing of an earlier frame is presented.
C19_FrameClearedThenPresentedOnce ==
    /\ call.presents <= 1
    /\ call.op \in {"render", "draw_line"} =>
            call.cleared /\ call.presents = 0
    /\ call.op = "present" =>
            /\ call.cleared /\ call.presents = 1 /\ ncalls >= 1
            /\ call.presented = buffer
            /\ \A px \in Pixels \ call.touched :
                    call.presented[px] = background_color
    /\ (pc = "loop" /\ call.time > 0) => call.op = "present"

\* the presentation of the second frame, with a pixel that the first frame
\* presented in a colour and the second frame did not write
C19_Witness ==
    /\ call.op = "present"
    /\ call.time = 2
    /\ call.touched # {}
    /\ \E px \in Pixels \ call.touched :
            /\ call.earlier[px] # background_color
            /\ call.presented[px] = background_color

----------------------------------------------------------------------------
(* Properties of the two line traversals *)

\* the pixel coordinates of the fragments of line, in order
FragmentPixels ==
    [i \in 1 .. Len(fragments.frags) |-> <<FragX(i), FragY(i)>>]

\* the pixel coordinates visited by draw_line, in order, as f32
VisitedPixelsF32 ==
    [i \in 1 .. Len(call.visited) |->
        <<as_f32(call.visited[i][1]), as_f32(call.visited[i][2])>>]

\* C21: for every pair of integer endpoints, line and draw_line visit the
\* same sequence of pixel coordinates, point for point and in the same order.
C21_SameTraversal ==
    pc = "traversed" =>
        /\ fragments.terminated /\ call.terminated
        /\ FragmentPixels = VisitedPixelsF32

C21_Witness ==
    /\ pc = "traversed"
    /\ a.transformed_position = Vec3(F(4), F(-1), F(0))
    /\ b.transformed_position = Vec3(F(-1), F(1), F(0))
    /\ Len(fragments.frags) = 6
    /\ FragmentPixels = VisitedPixelsF32
    /\ call.visited[3] = <<2, 0>>

----------------------------------------------------------------------------
(* Properties of the current colour *)

\* the pixels a draw call wrote
WrittenPixels ==
    {px \in Pixels : \/ buffer[px] # call.pre.buffer[px]
                     \/ zbuffer[px] # call.pre.zbuffer[px]}

\* C22: in render and in draw_line every pixel written holds a colour that
\* the call computed for that pixel; the colour current before the call
\* (set by main, or left by an earlier pixel, call or frame) is never the
\* one written.
C22_ColorNeverStale ==
    call.op \in {"render", "draw_line"} =>
        \A px \in WrittenPixels : buffer[px] \in call.hexes[px]

C22_Witness ==
    /\ call.op = "render"
    /\ call.pre.current_color = 16729344
    /\ WrittenPixels # {}
    /\ \A px \in WrittenPixels :
          buffer[px] \in call.hexes[px] /\ buffer[px] # 16729344
    /\ \E px, qx \in WrittenPixels : buffer[px] # buffer[qx]

----------------------------------------------------------------------------
(* Properties of the scene's shader tags *)

\* C23: every shader tag the scene passes to render in any frame is one of
\* the tags recognised by fragment_shader, so no draw call of the scene is
\* shaded by the black fallback.
C23_SceneTagsRecognised ==
    call.op = "shade" => call.shader_type \in fragment_shader_arms

----------------------------------------------------------------------------
(* Properties of render_orbit *)

\* the pixel of the position computed for the k-th orbit point
OrbitPixel(k) ==
    <<as_isize(call.points[k].position.x),
      as_isize(call.points[k].position.y)>>

\* C24: render_orbit over n >= 1 points built by create_orbit_points issues
\* exactly n draw_line calls, the i-th joining the position computed for
\* points[i] to that of points[(i+1) mod n]: a closed polygon through the
\* orbit points.
C24_OrbitIsClosedPolygon ==
    call.op = "render_orbit" =>
        /\ Len(call.lines) = Len(call.points)
        /\ \A k \in 1 .. Len(call.lines) :
              /\ call.lines[k][1] = OrbitPixel(k)
              /\ call.lines[k][Len(call.lines[k])] =
                     OrbitPixel((k % Len(call.points)) + 1)

----------------------------------------------------------------------------
(* Properties of the camera scale *)

\* C25: after any sequence of zoom-in (Q), zoom-out (E) and warp-key
\* presses starting from camera_scale = 5.0, camera_scale >= 0.1 holds
\* whenever create_view_matrix is called, so its 1/scale factors never
\* divide by zero.
C25_CameraScaleFloor ==
    call.op = "view" =>
        /\ FLe(Dec(1, 10), call.camera_scale)
        /\ IsNum(call.factor)

C25_Witness ==
    /\ call.op = "view"
    /\ call.e_down /\ ~call.q_down
    /\ FEq(call.before, Dec(1, 10))
    /\ FEq(call.camera_scale, Dec(1, 10))
    /\ FEq(call.factor, F(10))

----------------------------------------------------------------------------
(* Properties of the blue channel of ringed_planet *)

\* C26: for every combined_pattern in [0, 1] the saturating cast of
\* (0.5 - combined_pattern) * 50 yields a value in 0 .. 25 and the sum with
\* 20 lies in 20 .. 45, so the u8 addition never overflows.
C26_RingedBlueInRange ==
    call.op = "blue" =>
        /\ call.cast \in 0 .. 25
        /\ call.sum \in 20 .. 45
        /\ call.blue = call.sum

C26_Witness ==
    /\ call.op = "blue"
    /\ call.combined_pattern = F(0)
    /\ call.cast = 25
    /\ call.blue = 45

====
